---------------------------- MODULE Spec2Model ----------------------------
(***************************************************************************)
(* A model of loom, a limit-order-book matching engine.                    *)
(*                                                                         *)
(*   crates/core    Order, OrderKey, OrderBook (one side), MarketBook      *)
(*                  (try_match / try_cancel)                               *)
(*   crates/engine  Trader (queue + worker), MatchEngine (feed),           *)
(*                  CacheManager (the redis persistence), TradeConsumer    *)
(*   crates/loom    handler_match (the HTTP ingress: validation, to_order) *)
(*                                                                         *)
(* Prices are BigDecimal in the source; only their numeric order and       *)
(* equality are used, so they are integers here.  Option<T> is a sequence  *)
(* of length 0 (None) or 1 (Some).                                         *)
(***************************************************************************)
EXTENDS Integers, Sequences, FiniteSets, TLC

---------------------------------------------------------------------------
(* Bounds of the model.                                                    *)

\* order ids are 1..MaxId (the ingress validates id >= 1)
MaxId == 3
\* limit prices are 1..MaxPrice
MaxPrice == 2
\* number of requests one run of the Trader worker handles
MaxReq == 3

Ids == 1..MaxId
Prices == 1..MaxPrice
\* quantities: one unit and two (the ingress validates qty >= 1), so that a
\* fill is partial or full and a taker may need two makers
Qtys == {1, 2}

\* The symbols of the venue (the ingress validates 2..=50 characters).
SymA == "S1"
SymB == "S2"
Symbols == {SymA, SymB}

---------------------------------------------------------------------------
(* crates/core/src/order.rs                                                *)

None == <<>>
Some(x) == <<x>>

Range(seq) == {seq[i] : i \in 1..Len(seq)}

Min(a, b) == IF a <= b THEN a ELSE b

\* OrderState::del_flag
del_flag(state) ==
    CASE state = "INIT" -> FALSE
      [] state = "LIVE" -> FALSE
      [] state = "PARTIAL_FILLED" -> FALSE
      [] state = "PARTIAL_CANCELLED" -> TRUE
      [] state = "FULL_FILLED" -> TRUE
      [] state = "CANCELED" -> TRUE

\* Order::remain (u64 subtraction; every order of the model has
\* acc_fill_qty <= qty, so it never underflows)
remain(order) == order.qty - order.acc_fill_qty

\* a test of the sides alone, blind to the prices: C3 tells it from can_trade
can_trade_any(self, order) == self.side # order.side

\* a test that lets a taker trade only at a price better than its own:
\* C33 tells it from can_trade
can_trade_strict(self, order) ==
    IF self.side = order.side THEN FALSE
    ELSE IF self.ord_type = "MARKET" THEN TRUE
    ELSE IF self.side = "BUY" THEN self.price > order.price
    ELSE self.price < order.price

\* Order::can_trade: self is the taker, order the maker
can_trade(self, order) ==
    IF self.side = order.side THEN FALSE
    ELSE IF self.ord_type = "MARKET" THEN TRUE
    ELSE IF self.side = "BUY" THEN self.price >= order.price
    ELSE self.price <= order.price

\* a fill that sets the state and loses the quantity: C1 tells it from fill
fill_lost(order, filled_qty, state) == [order EXCEPT !.state = state]

\* Order::fill
fill(order, filled_qty, state) ==
    [order EXCEPT !.state = state, !.acc_fill_qty = @ + filled_qty]

\* a key that leaves the price out: C34 tells it from OrderKey::new
OrderKey_unpriced(order) ==
    [sequence_id |-> order.id, price |-> 0, side |-> order.side]

\* OrderKey::new
OrderKey(order) ==
    [sequence_id |-> order.id, price |-> order.price, side |-> order.side]

\* integer comparison as std::cmp::Ordering
IntCmp(a, b) == IF a < b THEN "Less" ELSE IF a = b THEN "Equal" ELSE "Greater"

\* a comparison by arrival alone, blind to the price: C2 tells it from cmp
OrderKeyCmp_fifo(self, other) ==
    IF self.side # other.side THEN "Panic"
    ELSE IntCmp(self.sequence_id, other.sequence_id)

\* impl Ord for OrderKey: cmp. Keys of different sides panic.
OrderKeyCmp(self, other) ==
    IF self.side # other.side THEN "Panic"
    ELSE LET ordering == IF other.side = "BUY"
                         THEN IntCmp(other.price, self.price)
                         ELSE IntCmp(self.price, other.price)
         IN  IF ordering = "Equal"
             THEN IntCmp(self.sequence_id, other.sequence_id)
             ELSE ordering

---------------------------------------------------------------------------
(* crates/core/src/book.rs: OrderBook, a BTreeMap<OrderKey, Order>. The    *)
(* map is the sequence of its values in key order.                         *)

\* OrderBook::new
NewOrderBook(symbol, side) ==
    [symbol |-> symbol, side |-> side, orders |-> <<>>]

\* index of the entry whose key compares Equal to key, 0 if none
KeyIndex(orders, key) ==
    LET hits == {i \in 1..Len(orders) :
                    OrderKeyCmp(OrderKey(orders[i]), key) = "Equal"}
    IN  IF hits = {} THEN 0 ELSE CHOOSE i \in hits : TRUE

\* OrderBook::exist_by_key
exist_by_key(book, key) == KeyIndex(book.orders, key) # 0

\* BTreeMap::insert of a key that is not in the map: the entry goes after
\* every entry whose key compares Less than it
BTreeInsert(orders, order) ==
    LET k == Cardinality({i \in 1..Len(orders) :
                 OrderKeyCmp(OrderKey(orders[i]), OrderKey(order)) = "Less"})
    IN  SubSeq(orders, 1, k) \o <<order>> \o SubSeq(orders, k + 1, Len(orders))

\* BTreeMap::remove
BTreeRemove(orders, key) ==
    LET i == KeyIndex(orders, key)
    IN  IF i = 0 THEN orders
        ELSE SubSeq(orders, 1, i - 1) \o SubSeq(orders, i + 1, Len(orders))

\* an add that answers Ok and inserts nothing: C7 tells it from add
add_nothing(book, order) == [ok |-> TRUE, book |-> book]

\* OrderBook::add: [ok, book]; a side mismatch is Err
add(book, order) ==
    IF order.side # book.side THEN [ok |-> FALSE, book |-> book]
    ELSE IF ~exist_by_key(book, OrderKey(order))
         THEN [ok |-> TRUE,
               book |-> [book EXCEPT !.orders = BTreeInsert(@, order)]]
         ELSE [ok |-> TRUE, book |-> book]

\* a removal by id alone, whatever the price of the key: C10 tells it from
\* del_by_key
del_by_id(book, key) ==
    [removed |-> IF \E i \in 1..Len(book.orders) : book.orders[i].id = key.sequence_id
                 THEN Some(book.orders[CHOOSE i \in 1..Len(book.orders) :
                                           book.orders[i].id = key.sequence_id])
                 ELSE None,
     book |-> [book EXCEPT !.orders =
                  SelectSeq(@, LAMBDA o : o.id # key.sequence_id)]]

\* OrderBook::del_by_key: [removed: Option<Order>, book]
del_by_key(book, key) ==
    LET i == KeyIndex(book.orders, key)
    IN  [removed |-> IF i = 0 THEN None ELSE Some(book.orders[i]),
         book |-> [book EXCEPT !.orders = BTreeRemove(@, key)]]

\* OrderBook::del
del(book, order) == del_by_key(book, OrderKey(order))

\* OrderBook::head: first_key_value
head(book) == IF Len(book.orders) = 0 THEN None ELSE Some(book.orders[1])

\* OrderBook::size
size(book) == Len(book.orders)

\* the head maker, mutated through its Rc<RefCell<Order>>, as the map holds it
SetHead(book, order) == [book EXCEPT !.orders[1] = order]


---------------------------------------------------------------------------
(* crates/core/src/market.rs                                               *)

\* MatchTrade::new_taker_cancel
new_taker_cancel(s, oid, now) ==
    [symbol |-> s, qty |-> 0, px |-> 0, taker_oid |-> oid, maker_oid |-> 0,
     taker_state |-> "CANCELED", maker_state |-> "INIT", ts |-> now]

\* a partial cancel reported as a plain cancel: C6 tells it from
\* new_taker_partial_cancel
new_taker_partial_cancel_plain(s, oid, now) == new_taker_cancel(s, oid, now)

\* MatchTrade::new_taker_partial_cancel
new_taker_partial_cancel(s, oid, now) ==
    [symbol |-> s, qty |-> 0, px |-> 0, taker_oid |-> oid, maker_oid |-> 0,
     taker_state |-> "PARTIAL_CANCELLED", maker_state |-> "INIT", ts |-> now]

\* a trade priced at the taker's price: C4 tells it from the trade of match_book
new_fill_trade_taker_px(taker_order, maker_order, matched_qty, now) ==
    [symbol |-> taker_order.symbol, qty |-> matched_qty,
     px |-> taker_order.price,
     taker_oid |-> taker_order.id, maker_oid |-> maker_order.id,
     taker_state |-> taker_order.state, maker_state |-> maker_order.state,
     ts |-> now]

\* match_book, "构造撮合结果": the trade of one fill, built from the taker and
\* the maker after both were filled
new_fill_trade(taker_order, maker_order, matched_qty, now) ==
    [symbol |-> taker_order.symbol, qty |-> matched_qty,
     px |-> maker_order.price,
     taker_oid |-> taker_order.id, maker_oid |-> maker_order.id,
     taker_state |-> taker_order.state, maker_state |-> maker_order.state,
     ts |-> now]

\* MarketBook::new
NewMarketBook(symbol, now) ==
    [symbol |-> symbol,
     buy |-> NewOrderBook(symbol, "BUY"),
     sell |-> NewOrderBook(symbol, "SELL"),
     px |-> 0, ts |-> now]

\* a cancel event that forgets the fills of the order: C9 tells it from
\* the event of cancel_book
cancel_event_plain(order, now) == new_taker_cancel(order.symbol, order.id, now)

\* cancel_book, the order found: one event, by what the order had been filled
cancel_event(order, now) ==
    IF remain(order) # order.qty
    THEN new_taker_partial_cancel(order.symbol, order.id, now)
    ELSE new_taker_cancel(order.symbol, order.id, now)

\* cancel_book after book.del_by_key: r = [removed, book]
cancel_result(r, now) ==
    IF r.removed # None
    THEN [trades |-> <<cancel_event(r.removed[1], now)>>, book |-> r.book]
    ELSE [trades |-> <<>>, book |-> r.book]

\* MarketBook::cancel_book: [trades, book]
cancel_book(book, cancel, now) ==
    cancel_result(del_by_key(book, OrderKey(cancel)), now)

\* no FOK test at all: C5 tells it from the test of match_book
fok_break_never(taker_order, maker_remain, taker_remain) == FALSE

\* match_book: the FOK test of one iteration, against the head maker only
fok_break(taker_order, maker_remain, taker_remain) ==
    taker_order.tif = "FOK" /\ maker_remain < taker_remain

\* match_book, "有剩余部分成交": the filled maker stays at the head
maker_kept(maker_book, m) == [maker |-> m, book |-> SetHead(maker_book, m)]

\* a full fill that leaves the maker in the book: C26 tells it from
\* maker_gone
maker_stays(maker_book, m) == [maker |-> m, book |-> SetHead(maker_book, m)]

\* match_book, "无剩余，完全成交": maker_book.del(&maker_order)
maker_gone(maker_book, m) == [maker |-> m, book |-> del(maker_book, m).book]

\* match_book: the maker side of one fill. The maker is filled in place and
\* leaves the book when nothing of it remains.
fill_maker(maker_book, maker_order, matched_qty) ==
    IF remain(maker_order) - matched_qty > 0
    THEN maker_kept(maker_book, fill(maker_order, matched_qty, "PARTIAL_FILLED"))
    ELSE maker_gone(maker_book, fill(maker_order, matched_qty, "FULL_FILLED"))

\* a taker reported PARTIAL_FILLED by every fill: C30 tells it from
\* fill_taker
fill_taker_partial(taker_order, taker_remain, matched_qty) ==
    fill(taker_order, matched_qty, "PARTIAL_FILLED")

\* match_book: the taker side of one fill
fill_taker(taker_order, taker_remain, matched_qty) ==
    IF taker_remain - matched_qty > 0
    THEN fill(taker_order, matched_qty, "PARTIAL_FILLED")
    ELSE fill(taker_order, matched_qty, "FULL_FILLED")

\* match_book: the loop. st = [taker, maker_book, trades, taker_remain]
RECURSIVE match_loop(_, _)

\* a last test that ends the loop for an IOC taker its fill left
\* PARTIAL_FILLED: C36 tells it from match_continue
match_continue_once(st, now) ==
    IF st.taker.tif = "IOC" /\ st.taker.state = "PARTIAL_FILLED"
    THEN st
    ELSE match_loop(st, now)

\* the loop's last test, "检查IOC订单是否要继续匹配", and the next iteration
match_continue(st, now) ==
    IF st.taker.tif = "IOC" /\ st.taker.state = "PARTIAL_CANCELLED"
    THEN st
    ELSE match_loop(st, now)

\* a fill whose trade is put in front of the batch: C28 tells it from
\* match_filled
match_filled_front(st, fm, taker, matched_qty, now) ==
    match_continue([taker |-> taker,
                    maker_book |-> fm.book,
                    trades |-> <<new_fill_trade(taker, fm.maker, matched_qty, now)>>
                                  \o st.trades,
                    taker_remain |-> st.taker_remain - matched_qty], now)

\* one fill done: fm = [maker, book] and taker are the filled orders
match_filled(st, fm, taker, matched_qty, now) ==
    match_continue([taker |-> taker,
                    maker_book |-> fm.book,
                    trades |-> Append(st.trades,
                                  new_fill_trade(taker, fm.maker, matched_qty, now)),
                    taker_remain |-> st.taker_remain - matched_qty], now)

\* the fill of matched_qty between the taker and the head maker
match_fill(st, maker_order, matched_qty, now) ==
    IF matched_qty <= 0 THEN st
    ELSE match_filled(st,
                      fill_maker(st.maker_book, maker_order, matched_qty),
                      fill_taker(st.taker, st.taker_remain, matched_qty),
                      matched_qty, now)

\* one iteration against the head maker
match_head(st, maker_order, now) ==
    IF ~can_trade(st.taker, maker_order) THEN st
    ELSE IF fok_break(st.taker, remain(maker_order), st.taker_remain) THEN st
    ELSE match_fill(st, maker_order, Min(st.taker_remain, remain(maker_order)), now)

match_loop(st, now) ==
    IF st.taker_remain <= 0 THEN st
    ELSE IF head(st.maker_book) = None THEN st
    ELSE match_head(st, head(st.maker_book)[1], now)

\* the result of match_book when the loop ended in st: [trades, maker_book,
\* taker_book, ok]
match_result(st, trades, taker_book, ok) ==
    [trades |-> trades, maker_book |-> st.maker_book,
     taker_book |-> taker_book, ok |-> ok]

\* match_book, GTC LIMIT: taker_book.add(taker_order).unwrap(); a = [ok, book]
rest(st, a) == match_result(st, st.trades, a.book, a.ok)

\* a residual that rests whatever the type of a GTC order: C31 tells it
\* from residual
residual_rests(st, taker_book, now) ==
    IF st.taker_remain > 0 /\ st.taker.tif = "GTC"
    THEN rest(st, add(taker_book, st.taker))
    ELSE match_result(st, st.trades, taker_book, TRUE)

\* match_book: what happens to a taker the loop left with taker_remain > 0;
\* ok is FALSE when taker_book.add(..).unwrap() panics
residual(st, taker_book, now) ==
    IF st.taker_remain > 0
    THEN CASE st.taker.tif = "GTC" ->
                IF st.taker.ord_type = "LIMIT"
                THEN rest(st, add(taker_book, st.taker))
                ELSE match_result(st, st.trades, taker_book, TRUE)
           [] st.taker.tif = "IOC" ->
                IF st.taker_remain = st.taker.qty
                THEN match_result(st, Append(st.trades,
                         new_taker_cancel(st.taker.symbol, st.taker.id, now)),
                         taker_book, TRUE)
                ELSE match_result(st, Append(st.trades,
                         new_taker_partial_cancel(st.taker.symbol, st.taker.id, now)),
                         taker_book, TRUE)
           [] st.taker.tif = "FOK" ->
                match_result(st, Append(st.trades,
                    new_taker_cancel(st.taker.symbol, st.taker.id, now)),
                    taker_book, TRUE)
    ELSE match_result(st, st.trades, taker_book, TRUE)

\* a match_book without the test for a taker that already rests: C27 tells
\* it from match_book
match_book_unchecked(taker_order, maker_book, taker_book, now) ==
    residual(match_loop([taker |-> taker_order,
                         maker_book |-> maker_book,
                         trades |-> <<>>,
                         taker_remain |-> remain(taker_order)], now),
             taker_book, now)

\* MarketBook::match_book: [trades, maker_book, taker_book, ok]
match_book(taker_order, maker_book, taker_book, now) ==
    IF exist_by_key(taker_book, OrderKey(taker_order))
    THEN [trades |-> <<>>, maker_book |-> maker_book,
          taker_book |-> taker_book, ok |-> TRUE]
    ELSE residual(match_loop([taker |-> taker_order,
                              maker_book |-> maker_book,
                              trades |-> <<>>,
                              taker_remain |-> remain(taker_order)], now),
                  taker_book, now)

\* try_cancel, the book cancel_book worked on put back: r = [trades, book]
cancelled(mb, cancel, r) ==
    [trades |-> r.trades,
     market |-> IF cancel.side = "BUY"
                THEN [mb EXCEPT !.buy = r.book]
                ELSE [mb EXCEPT !.sell = r.book],
     ok |-> TRUE]

\* MarketBook::try_cancel: [trades, market, ok]
try_cancel(mb, cancel, now) ==
    cancelled(mb, cancel,
              cancel_book(IF cancel.side = "BUY" THEN mb.buy ELSE mb.sell,
                          cancel, now))

\* try_match after match_book: the books put back, ts and px updated;
\* r = [trades, maker_book, taker_book, ok]
matched(mb, taker_order, r, now) ==
    [trades |-> r.trades,
     market |-> [mb EXCEPT
         !.buy = IF taker_order.side = "BUY" THEN r.taker_book ELSE r.maker_book,
         !.sell = IF taker_order.side = "BUY" THEN r.maker_book ELSE r.taker_book,
         !.ts = now,
         !.px = IF Len(r.trades) > 0 THEN r.trades[Len(r.trades)].px ELSE @],
     ok |-> r.ok]

\* a try_match that takes the sell book for the maker book whatever the side
\* of the taker: C29 tells it from try_match
try_match_sell(mb, taker_order, now) ==
    matched(mb, [taker_order EXCEPT !.side = "BUY"],
            match_book(taker_order, mb.sell, mb.buy, now),
            now)

\* MarketBook::try_match: [trades, market, ok]
try_match(mb, taker_order, now) ==
    matched(mb, taker_order,
            match_book(taker_order,
                       IF taker_order.side = "BUY" THEN mb.sell ELSE mb.buy,
                       IF taker_order.side = "BUY" THEN mb.buy ELSE mb.sell,
                       now),
            now)

---------------------------------------------------------------------------
(* crates/loom/src/handler_match.rs: the ingress                           *)

\* MatchOrderParam: the request bodies the model feeds. A LIMIT request
\* carries a price, a MARKET request none; tif is optional. A CANCEL names
\* its order by id, side and price (cancel_book reads nothing else of it),
\* so the model sends one CANCEL per key, with the least other fields.
PlaceParams(symbols, ids) ==
    [id : ids, symbol : symbols, side : {"BUY", "SELL"}, qty : Qtys,
     price : {Some(p) : p \in Prices}, ord_type : {"LIMIT"},
     tif : {None, Some("GTC"), Some("IOC"), Some("FOK")},
     action : {"PLACE"}, ts : {Some(1)}]
    \cup
    [id : ids, symbol : symbols, side : {"BUY", "SELL"}, qty : Qtys,
     price : {None}, ord_type : {"MARKET"},
     tif : {None, Some("GTC"), Some("IOC"), Some("FOK")},
     action : {"PLACE"}, ts : {Some(1)}]

CancelParams(symbols, ids) ==
    [id : ids, symbol : symbols, side : {"BUY", "SELL"}, qty : {1},
     price : {Some(p) : p \in Prices}, ord_type : {"LIMIT"},
     tif : {None}, action : {"CANCEL"}, ts : {Some(1)}]

\* handler_match: param.validate() and the two checks that follow it
handler_valid(param) ==
    /\ param.id >= 1
    /\ param.qty >= 1
    /\ (param.price # None => ~(param.price[1] < 0))
    /\ (param.tif # None => ~(param.ord_type = "MARKET" /\ param.tif[1] = "GTC"))

\* MatchOrderParam::to_order
to_order(param, now) ==
    LET now_ts == IF param.ts = None THEN now ELSE param.ts[1]
    IN  [id |-> param.id, symbol |-> param.symbol, side |-> param.side,
         qty |-> param.qty,
         price |-> IF param.price = None THEN 0 ELSE param.price[1],
         acc_fill_qty |-> 0, ord_type |-> param.ord_type,
         ts |-> now_ts, update_ts |-> now_ts, state |-> "LIVE",
         tif |-> IF param.tif = None
                 THEN (IF param.ord_type = "MARKET" THEN "IOC" ELSE "GTC")
                 ELSE param.tif[1],
         action |-> param.action]

---------------------------------------------------------------------------
(* State                                                                   *)

VARIABLES
    traders,      \* MatchEngine.traders: the symbols that have a Trader
    market,       \* Trader.book of each symbol: [symbol, buy, sell, px, ts]
    queue,        \* the Trader's mpsc channel of each symbol
    worker,       \* the Trader's worker of each symbol: [pc, req, trades]
    is_shutdown,  \* MatchEngine.is_shutdown
    cache,        \* the persistence: [ids, orders, trades]
    resp,         \* the last MatchEngine::feed call: [req, err]
    n,            \* requests handled so far; the millisecond clock
    recovering,   \* no CANCEL was handled yet: new_trader may still be feeding
                  \* the persisted orders
    consumer,     \* the TradeConsumer the Traders were built with
    fed,          \* history: the (symbol, id) of the PLACEs feed has accepted
    ctx,          \* MatchEngine.ctx, the broadcast channel: the receiver each
                  \* worker was launched with: "none", "open", "sent" (the
                  \* stop signal waits in it), "dropped"
    handlers,     \* MatchEngine.handlers: the workers' JoinHandles
    stopper,      \* the call of MatchEngine::shutdown: "idle", "joining",
                  \* "returned", "panicked"; "starting" while init_engine
                  \* is still at work, "panicked" also when that panics
    feeding,      \* the MatchEngine::feed call that has passed add_if_absent
                  \* and not yet reached Trader::feed
    restarted,    \* the process was started again over the same persistence
    snapshot      \* history: what rested when shutdown last returned

\* the variables of the engine's life cycle
lifeVars == <<ctx, handlers, stopper, feeding, restarted, snapshot>>

vars == <<traders, market, queue, worker, is_shutdown, cache, resp, n,
          recovering, consumer, fed, lifeVars>>

\* what only the engine level moves
engineVars == <<traders, queue, is_shutdown, cache, resp, consumer, fed, lifeVars>>

\* utils::now_ts
now_ts == n

\* a worker that waits on its queue, having handled nothing yet
IdleWorker == [pc |-> "recv", req |-> None, trades |-> <<>>]

\* no feed was made yet
NoResp == [req |-> None, err |-> "none"]

\* the empty persistence: per symbol the ID index (a sorted set: its members
\* and their scores), the hash of each order and the length of the trade
\* stream
EmptyCache ==
    [ids |-> [s \in Symbols |-> {}],
     scores |-> [s \in Symbols |-> [i \in Ids |-> 0]],
     orders |-> [s \in Symbols |-> [i \in Ids |-> None]],
     trades |-> [s \in Symbols |-> 0]]

\* MatchEngine::new and new_trader for each symbol of ts: a worker is
\* launched with a receiver of ctx and its JoinHandle is kept; no shutdown
\* and no feed is under way
launched(ts) ==
    /\ ctx = [s \in Symbols |-> IF s \in ts THEN "open" ELSE "none"]
    /\ handlers = ts
    /\ stopper = "idle"
    /\ feeding = None

---------------------------------------------------------------------------
(* Spec: the Trader worker of one symbol and the stream of requests that    *)
(* reaches it: first the persisted orders new_trader feeds, then what       *)
(* MatchEngine::feed lets through.  The queue is left out: a request is     *)
(* handled as it is admitted, and the persistence that admits it is not     *)
(* tracked (SpecEngine does both).  A persisted order without fills is the same *)
(* Order as a fresh PLACE, so the first CANCEL, which only MatchEngine::feed *)
(* delivers, is what tells that recovery is over.                           *)

\* the orders the ingress hands over for the symbol: PLACE and CANCEL
LiveOrders ==
    {to_order(p, 0) : p \in {q \in PlaceParams({SymA}, Ids) \cup CancelParams({SymA}, Ids) :
                                 handler_valid(q)}}

\* the orders startup recovery feeds besides unmatched ones: what persistence
\* holds of a resting (GTC LIMIT) order that was partially filled
PartialOrders ==
    {o \in [id : Ids, symbol : {SymA}, side : {"BUY", "SELL"}, qty : Qtys,
            price : Prices, acc_fill_qty : Qtys, ord_type : {"LIMIT"},
            ts : {1}, update_ts : {1}, state : {"PARTIAL_FILLED"},
            tif : {"GTC"}, action : {"PLACE"}] : o.acc_fill_qty < o.qty}

Requests == LiveOrders \cup PartialOrders

\* the ids resting in a MarketBook
RestingIds(mb) ==
    {mb.buy.orders[i].id : i \in 1..Len(mb.buy.orders)} \cup
    {mb.sell.orders[i].id : i \in 1..Len(mb.sell.orders)}

\* MatchEngine::feed lets a PLACE through only when add_if_absent created
\* its record, and the record of a resting order is there until the order
\* leaves the book: no PLACE with the id of a resting order reaches the worker
admitted(mb, order) ==
    order.action = "PLACE" => order.id \notin RestingIds(mb)

\* trader.rs handle_request up to consumer.consume: [trades, market, ok]
handle_request(mb, order, now) ==
    IF order.action = "PLACE"
    THEN try_match(mb, order, now)
    ELSE try_cancel(mb, order, now)

\* the worker has run try_match / try_cancel on order: r = [trades, market, ok].
\* The book is as r left it and the batch waits for the sink.
handled(order, r) ==
    /\ market' = [market EXCEPT ![SymA] = r.market]
    /\ worker' = [worker EXCEPT ![SymA] =
                    [pc |-> "sink", req |-> Some(order), trades |-> r.trades]]

Init ==
    /\ traders = {SymA}
    /\ market = [s \in Symbols |-> NewMarketBook(s, 0)]
    /\ queue = [s \in Symbols |-> <<>>]
    /\ worker = [s \in Symbols |-> IdleWorker]
    /\ is_shutdown = FALSE
    /\ cache = EmptyCache
    /\ resp = NoResp
    /\ n = 0
    /\ recovering = TRUE
    /\ consumer = "Console"
    /\ fed = {}
    /\ launched({SymA})
    /\ restarted = FALSE
    /\ snapshot = {}

\* the worker takes a request and matches it: handle_request up to
\* consumer.consume(trades).await
Handle ==
    \E order \in Requests :
        /\ n < MaxReq
        /\ order \in PartialOrders => recovering
        /\ recovering' = (recovering /\ order.action = "PLACE")
        /\ worker[SymA].pc = "recv"
        /\ admitted(market[SymA], order)
        /\ handled(order, handle_request(market[SymA], order, now_ts))
        /\ n' = n + 1
        /\ UNCHANGED engineVars

\* consumer.consume(trades): the sink takes the batch, which changes neither
\* the book nor the worker, and the worker returns to its queue
Consume ==
    /\ worker[SymA].pc = "sink"
    /\ worker' = [worker EXCEPT ![SymA] = IdleWorker]
    /\ UNCHANGED <<market, n, recovering>>
    /\ UNCHANGED engineVars

Next == Handle \/ Consume

Spec == Init /\ [][Next]_vars

---------------------------------------------------------------------------
(* SpecCore: MarketBook as the library type it is: try_match and           *)
(* try_cancel are public and take any Order, the one whose key already     *)
(* rests included (no admission stands before them), and a MARKET order    *)
(* may carry a price, which the ingress lets through.                      *)

\* MARKET requests that carry a price
PricedMarketParams ==
    [id : Ids, symbol : {SymA}, side : {"BUY", "SELL"}, qty : Qtys,
     price : {Some(p) : p \in Prices}, ord_type : {"MARKET"},
     tif : {Some("IOC")}, action : {"PLACE"}, ts : {Some(1)}]

\* the orders the book is called with: LIMIT orders that rest (GTC) or do
\* not (IOC), and the priced MARKET orders
CoreOrders ==
    {to_order(p, 0) :
        p \in {q \in PlaceParams({SymA}, Ids) \cup PricedMarketParams :
                  /\ handler_valid(q)
                  /\ q.ord_type = "LIMIT" => q.tif \in {Some("GTC"), Some("IOC")}
                  /\ q.ord_type = "MARKET" => q.price # None}}

\* one call of try_match or try_cancel on the book, up to the hand-over of
\* its batch
HandleCore ==
    \E order \in CoreOrders :
        /\ n < MaxReq
        /\ worker[SymA].pc = "recv"
        /\ recovering' = (recovering /\ order.action = "PLACE")
        /\ handled(order, handle_request(market[SymA], order, now_ts))
        /\ n' = n + 1
        /\ UNCHANGED engineVars

NextCore == HandleCore \/ Consume

SpecCore == Init /\ [][NextCore]_vars

---------------------------------------------------------------------------
(* SpecMarket: try_match called with GTC MARKET orders, which the Order    *)
(* type allows and the ingress alone keeps out (handler_match rejects      *)
(* MARKET with GTC, to_order gives a MARKET without tif IOC), over a book  *)
(* of resting GTC LIMIT orders.                                            *)

\* Order: MARKET orders with tif GTC, as a caller of the core builds them
GtcMarketOrders ==
    [id : Ids, symbol : {SymA}, side : {"BUY", "SELL"}, qty : Qtys,
     price : {0}, acc_fill_qty : {0}, ord_type : {"MARKET"},
     ts : {0}, update_ts : {0}, state : {"LIVE"},
     tif : {"GTC"}, action : {"PLACE"}]

\* the orders the book is called with: LIMIT orders that rest and the GTC
\* MARKET orders
MarketOrders ==
    {o \in CoreOrders : o.ord_type = "LIMIT" /\ o.tif = "GTC"} \cup GtcMarketOrders

\* one call of try_match on the book, up to the hand-over of its batch
HandleMarket ==
    \E order \in MarketOrders :
        /\ n < MaxReq
        /\ worker[SymA].pc = "recv"
        /\ recovering' = recovering
        /\ handled(order, handle_request(market[SymA], order, now_ts))
        /\ n' = n + 1
        /\ UNCHANGED engineVars

NextMarket == HandleMarket \/ Consume

SpecMarket == Init /\ [][NextMarket]_vars


---------------------------------------------------------------------------
(* SpecEngine: MatchEngine::feed in front of the Trader of one symbol, with *)
(* the persistence, the Trader's queue and either sink.                     *)

\* more feeds than this are not followed
MaxFeed == 3
\* the ids the feeds use
MaxEngineId == 2
EngineIds == 1..MaxEngineId

\* Trader::new: mpsc::channel(16)
QueueCap == 16

\* what the ingress hands to MatchEngine::feed: limit orders at one price
EngineOrders ==
    {to_order(p, 0) :
        p \in {q \in [id : EngineIds, symbol : {SymA}, side : {"BUY", "SELL"},
                      qty : {1}, price : {Some(1)}, ord_type : {"LIMIT"},
                      tif : {Some("GTC"), Some("IOC")},
                      action : {"PLACE"}, ts : {Some(1)}]
                     \cup CancelParams({SymA}, EngineIds) :
                  handler_valid(q) /\ q.price = Some(1)}}

\* the fields of the hash of an order, in the order add_if_absent writes them
OrderFields ==
    <<"id", "symbol", "side", "qty", "price", "acc_fill_qty", "ord_type", "ts",
      "update_ts", "state", "tif", "action">>

\* EXISTS of a hash: Redis keeps no empty hash, the absent one is None
hash_exists(h) == DOMAIN h # {}

\* HSETNX of one field: the reply, 1 when the field was set
hsetnx(h, field) == IF field \in DOMAIN h THEN 0 ELSE 1

\* the hash after the HSETNX of every field of the order: a field that is
\* there keeps its value
hsetnx_all(h, order) ==
    IF ~hash_exists(h)
    THEN order
    ELSE [f \in DOMAIN h \cup Range(OrderFields) |->
              IF f \in DOMAIN h THEN h[f] ELSE order[f]]

\* an admission that never finds the record there: C8 tells it from
\* add_if_absent
add_if_absent_blind(c, order) ==
    [ok |-> TRUE,
     cache |-> [c EXCEPT !.ids[order.symbol] = @ \cup {order.id},
                         !.scores[order.symbol][order.id] = order.ts,
                         !.orders[order.symbol][order.id] = order]]

\* CacheManager::add_if_absent: ZADD NX of the id, HSETNX of every field of
\* the record, in one transaction; the result reads the first two replies,
\* those of the ZADD and of the HSETNX of "id"; [ok, cache]
add_if_absent(c, order) ==
    LET s == order.symbol
        zadd == IF order.id \in c.ids[s] THEN 0 ELSE 1
    IN  [ok |-> (zadd = 1) /\ (hsetnx(c.orders[s][order.id], OrderFields[1]) = 1),
         cache |-> [c EXCEPT !.ids[s] = @ \cup {order.id},
                             !.scores[s][order.id] = IF zadd = 1 THEN order.ts ELSE @,
                             !.orders[s][order.id] = hsetnx_all(@, order)]]

\* an update that deletes the record and leaves its index entry: C19 tells
\* it from update_order
update_order_no_zrem(c, s, oid, acc_fill_qty, state, ts, del_order) ==
    IF oid \in DOMAIN c.orders[s] /\ hash_exists(c.orders[s][oid])
    THEN IF del_order
         THEN [c EXCEPT !.orders[s][oid] = None]
         ELSE [c EXCEPT !.orders[s][oid] =
                  [@ EXCEPT !.acc_fill_qty = @ + acc_fill_qty,
                            !.state = state,
                            !.update_ts = ts]]
    ELSE c

\* offer_trades, the script's update_order
update_order(c, s, oid, acc_fill_qty, state, ts, del_order) ==
    IF oid \in DOMAIN c.orders[s] /\ hash_exists(c.orders[s][oid])
    THEN IF del_order
         THEN [c EXCEPT !.orders[s][oid] = None, !.ids[s] = @ \ {oid},
                        !.scores[s][oid] = 0]
         ELSE [c EXCEPT !.orders[s][oid] =
                  [@ EXCEPT !.acc_fill_qty = @ + acc_fill_qty,
                            !.state = state,
                            !.update_ts = ts]]
    ELSE c

\* offer_trades, the script's loop: the taker of each update, then its maker
RECURSIVE apply_updates(_, _)
apply_updates(c, trades) ==
    IF trades = <<>>
    THEN c
    ELSE LET t == trades[1]
             c1 == update_order(c, t.symbol, t.taker_oid, t.qty, t.taker_state,
                                t.ts, del_flag(t.taker_state))
             c2 == update_order(c1, t.symbol, t.maker_oid, t.qty, t.maker_state,
                                t.ts, del_flag(t.maker_state))
         IN  apply_updates(c2, Tail(trades))

\* CacheManager::offer_trades
offer_trades(c, trades) ==
    IF trades = <<>>
    THEN c
    ELSE LET c1 == apply_updates(c, trades)
         IN  [c1 EXCEPT !.trades[trades[1].symbol] = @ + 1]

\* MatchEngine::new, new_trader for SymA over an empty persistence
InitEngine ==
    /\ traders = {SymA}
    /\ market = [s \in Symbols |-> NewMarketBook(s, 0)]
    /\ queue = [s \in Symbols |-> <<>>]
    /\ worker = [s \in Symbols |-> IdleWorker]
    /\ is_shutdown = FALSE
    /\ cache = EmptyCache
    /\ resp = NoResp
    /\ n = 0
    /\ recovering = FALSE
    /\ consumer \in {"Console", "RedisQueue"}
    /\ fed = {}
    /\ launched({SymA})
    /\ restarted = FALSE
    /\ snapshot = {}

\* MatchEngine::feed, then Trader::feed, of one order
feed(order) ==
    /\ Len(queue[order.symbol]) < QueueCap
    /\ n' = n + 1
    /\ UNCHANGED <<traders, market, worker, is_shutdown, recovering, consumer,
                   lifeVars>>
    /\ IF is_shutdown
       THEN /\ resp' = [req |-> Some(order), err |-> "engine stopping or stopped"]
            /\ UNCHANGED <<cache, queue, fed>>
       ELSE LET a == IF order.action = "PLACE"
                     THEN add_if_absent(cache, order)
                     ELSE [ok |-> TRUE, cache |-> cache]
            IN  /\ cache' = a.cache
                /\ IF ~a.ok
                   THEN /\ resp' = [req |-> Some(order), err |-> "order existed"]
                        /\ UNCHANGED <<queue, fed>>
                   ELSE /\ resp' = [req |-> Some(order), err |-> "ok"]
                        /\ queue' = IF order.symbol \in traders
                                    THEN [queue EXCEPT ![order.symbol] = Append(@, order)]
                                    ELSE queue
                        /\ fed' = IF order.action = "PLACE"
                                  THEN fed \cup {<<order.symbol, order.id>>}
                                  ELSE fed

\* the ingress feeds one of its orders
Feed ==
    \E order \in EngineOrders :
        /\ n < MaxFeed
        /\ feed(order)

\* a worker that takes the newest request of its queue: C12 tells it from
\* WorkerRecv
WorkerRecv_newest ==
    /\ worker[SymA].pc = "recv"
    /\ queue[SymA] # <<>>
    /\ handled(queue[SymA][Len(queue[SymA])],
               handle_request(market[SymA], queue[SymA][Len(queue[SymA])], now_ts))
    /\ queue' = [queue EXCEPT ![SymA] = SubSeq(@, 1, Len(@) - 1)]
    /\ UNCHANGED <<traders, is_shutdown, cache, resp, n, recovering, consumer, fed,
                   lifeVars>>

\* the worker's receiver.recv() and handle_request up to consumer.consume
WorkerRecv ==
    /\ worker[SymA].pc = "recv"
    /\ queue[SymA] # <<>>
    /\ handled(Head(queue[SymA]),
               handle_request(market[SymA], Head(queue[SymA]), now_ts))
    /\ queue' = [queue EXCEPT ![SymA] = Tail(@)]
    /\ UNCHANGED <<traders, is_shutdown, cache, resp, n, recovering, consumer, fed,
                   lifeVars>>

\* ConsoleConsumer::consume: the batch is logged
SinkConsole ==
    /\ worker[SymA].pc = "sink"
    /\ consumer = "Console"
    /\ worker' = [worker EXCEPT ![SymA] = IdleWorker]
    /\ UNCHANGED <<market, n, recovering>>
    /\ UNCHANGED engineVars

\* RedisQueueConsumer::consume: offer_trades
SinkRedis ==
    /\ worker[SymA].pc = "sink"
    /\ consumer = "RedisQueue"
    /\ cache' = offer_trades(cache, worker[SymA].trades)
    /\ worker' = [worker EXCEPT ![SymA] = IdleWorker]
    /\ UNCHANGED <<traders, market, queue, is_shutdown, resp, n, recovering,
                   consumer, fed, lifeVars>>

NextEngine == Feed \/ WorkerRecv \/ SinkConsole \/ SinkRedis

SpecEngine == InitEngine /\ [][NextEngine]_vars

---------------------------------------------------------------------------
(* SpecCache: CacheManager::add_if_absent as a function of what the store   *)
(* holds.  The store is shared and outlives the process: besides the whole  *)
(* records and index entries the engine writes, a call may find an index    *)
(* entry without its hash, a hash without its index entry, and a hash       *)
(* that holds only some of the fields.                                      *)

\* the records add_if_absent writes for an id
StoredOrders(i) == {o \in EngineOrders : o.action = "PLACE" /\ o.id = i}

\* the fields fs of a hash
restrict(h, fs) == [f \in fs |-> h[f]]

\* what the store may hold under the key of an order: nothing, a whole
\* record, or only its "id" or only its "qty"
FoundHashes(i) ==
    {None} \cup StoredOrders(i)
           \cup {restrict(o, {"id"}) : o \in StoredOrders(i)}
           \cup {restrict(o, {"qty"}) : o \in StoredOrders(i)}

\* a store with the index members index and the hashes hs
found_cache(index, hs) ==
    [EmptyCache EXCEPT !.ids[SymA] = index,
                       !.scores[SymA] = [i \in Ids |-> IF i \in index THEN 1 ELSE 0],
                       !.orders[SymA] = [i \in Ids |-> IF i \in EngineIds
                                                       THEN hs[i] ELSE None]]

InitCache ==
    /\ traders = {SymA}
    /\ market = [s \in Symbols |-> NewMarketBook(s, 0)]
    /\ queue = [s \in Symbols |-> <<>>]
    /\ worker = [s \in Symbols |-> IdleWorker]
    /\ is_shutdown = FALSE
    /\ \E index \in SUBSET EngineIds :
           \E hs \in [EngineIds -> UNION {FoundHashes(i) : i \in EngineIds}] :
               /\ \A i \in EngineIds : hs[i] \in FoundHashes(i)
               /\ cache = found_cache(index, hs)
    /\ resp = NoResp
    /\ n = 0
    /\ recovering = FALSE
    /\ consumer = "RedisQueue"
    /\ fed = {}
    /\ launched({SymA})
    /\ restarted = FALSE
    /\ snapshot = {}

\* one call of CacheManager::add_if_absent; resp keeps the order and the
\* result: "ok" for true, "order existed" for false
AddIfAbsent ==
    \E order \in UNION {StoredOrders(i) : i \in EngineIds} :
        /\ n < MaxFeed
        /\ n' = n + 1
        /\ cache' = add_if_absent(cache, order).cache
        /\ resp' = [req |-> Some(order),
                    err |-> IF add_if_absent(cache, order).ok
                            THEN "ok" ELSE "order existed"]
        /\ UNCHANGED <<traders, market, queue, worker, is_shutdown, recovering,
                       consumer, fed, lifeVars>>

NextCache == AddIfAbsent

---------------------------------------------------------------------------
(* SpecJournal: the persistence-backed sink under the batches of a book    *)
(* with three ids and quantities up to three.  A feed is made when the     *)
(* Trader has handled the one before, so that the batches, not the         *)
(* interleavings of the queue, fill the state space.                       *)

\* the ids and the quantities of the feeds
JournalIds == {1, 2, 3}
JournalQtys == {1, 3}

JournalOrders ==
    {to_order(p, 0) :
        p \in {q \in [id : JournalIds, symbol : {SymA}, side : {"BUY", "SELL"},
                      qty : JournalQtys, price : {Some(1)}, ord_type : {"LIMIT"},
                      tif : {Some("GTC"), Some("IOC")},
                      action : {"PLACE"}, ts : {Some(1)}]
                     \cup CancelParams({SymA}, JournalIds) :
                  handler_valid(q) /\ q.price = Some(1)}}

\* new_trader for SymA with the RedisQueueConsumer over an empty persistence
InitJournal ==
    /\ traders = {SymA}
    /\ market = [s \in Symbols |-> NewMarketBook(s, 0)]
    /\ queue = [s \in Symbols |-> <<>>]
    /\ worker = [s \in Symbols |-> IdleWorker]
    /\ is_shutdown = FALSE
    /\ cache = EmptyCache
    /\ resp = NoResp
    /\ n = 0
    /\ recovering = FALSE
    /\ consumer = "RedisQueue"
    /\ fed = {}
    /\ launched({SymA})
    /\ restarted = FALSE
    /\ snapshot = {}

\* a feed to a Trader that waits on its empty queue
FeedJournal ==
    \E order \in JournalOrders :
        /\ n < MaxFeed
        /\ queue[SymA] = <<>>
        /\ worker[SymA].pc = "recv"
        /\ feed(order)

NextJournal == FeedJournal \/ WorkerRecv \/ SinkRedis

SpecJournal == InitJournal /\ [][NextJournal]_vars

SpecCache == InitCache /\ [][NextCache]_vars

---------------------------------------------------------------------------
(* SpecBatch: the batches of the Trader under either sink, with requests   *)
(* waiting in its queue: resting orders of one unit and immediate orders   *)
(* of three, so that a batch holds up to two fills and a closing event.    *)

BatchOrders ==
    {o \in JournalOrders : /\ o.action = "PLACE"
                           /\ o.tif = "GTC" => o.qty = 1
                           /\ o.tif = "IOC" => o.qty = 3}

\* the ingress feeds one of these orders
FeedBatch ==
    \E order \in BatchOrders :
        /\ n < MaxFeed
        /\ feed(order)

NextBatch == FeedBatch \/ WorkerRecv \/ SinkConsole \/ SinkRedis

SpecBatch == InitEngine /\ [][NextBatch]_vars

---------------------------------------------------------------------------
(* SpecSink: the Trader with the RedisQueueConsumer when the persistence   *)
(* may fail a call of the sink: offer_trades returns Err when no           *)
(* connection is got or the script's call fails, before the script ran or  *)
(* after it ran with its reply lost.  An empty batch is answered before    *)
(* the persistence is called and cannot fail.                              *)

\* a worker that ends at the error of handle_request: C32 tells it from
\* after_sink_error
after_sink_error_exit ==
    worker' = [worker EXCEPT ![SymA] = [IdleWorker EXCEPT !.pc = "exited"]]

\* the worker's loop at the error of handle_request: let _ = ..., and the
\* next turn of the loop
after_sink_error ==
    worker' = [worker EXCEPT ![SymA] = IdleWorker]

\* RedisQueueConsumer::consume answers Err
SinkFail ==
    /\ worker[SymA].pc = "sink"
    /\ consumer = "RedisQueue"
    /\ worker[SymA].trades # <<>>
    /\ cache' \in {cache, offer_trades(cache, worker[SymA].trades)}
    /\ after_sink_error
    /\ UNCHANGED <<traders, market, queue, is_shutdown, resp, n, recovering,
                   consumer, fed, lifeVars>>

NextSink == Feed \/ WorkerRecv \/ SinkRedis \/ SinkFail

SpecSink == InitJournal /\ [][NextSink]_vars

---------------------------------------------------------------------------
(* SpecStore: the CacheManager by itself: calls of add_if_absent, del and  *)
(* offer_trades, in any order, on a persistence that was empty.  Each is   *)
(* one transaction of the persistence (MULTI/EXEC, or one script).         *)

\* the fills and the events a batch may hold for the ids of the store
StoreFills ==
    [symbol : {SymA}, qty : {1}, px : {1}, taker_oid : EngineIds,
     maker_oid : EngineIds, taker_state : {"PARTIAL_FILLED", "FULL_FILLED"},
     maker_state : {"PARTIAL_FILLED", "FULL_FILLED"}, ts : {1}]
StoreEvents ==
    {new_taker_cancel(SymA, i, 1) : i \in EngineIds}
    \cup {new_taker_partial_cancel(SymA, i, 1) : i \in EngineIds}

\* the batches offer_trades is called with: a fill, an event, or a fill and
\* an event after it
StoreBatches ==
    {<<t>> : t \in StoreFills \cup StoreEvents}
    \cup {<<f, e>> : f \in StoreFills, e \in StoreEvents}

\* a del that removes the record and leaves the index entry: C35 tells it
\* from CacheManager::del
CacheManager_del_record(c, order) ==
    [c EXCEPT !.orders[order.symbol][order.id] = None]

\* CacheManager::del: ZREM of the id and DEL of the record, in one
\* transaction
CacheManager_del(c, order) ==
    [c EXCEPT !.ids[order.symbol] = @ \ {order.id},
              !.scores[order.symbol][order.id] = 0,
              !.orders[order.symbol][order.id] = None]

\* one call of CacheManager::del; resp keeps the order
Del ==
    \E order \in UNION {StoredOrders(i) : i \in EngineIds} :
        /\ n < MaxFeed
        /\ n' = n + 1
        /\ cache' = CacheManager_del(cache, order)
        /\ resp' = [req |-> Some(order), err |-> "deleted"]
        /\ UNCHANGED <<traders, market, queue, worker, is_shutdown, recovering,
                       consumer, fed, lifeVars>>

\* one call of CacheManager::offer_trades
OfferTrades ==
    \E trades \in StoreBatches :
        /\ n < MaxFeed
        /\ n' = n + 1
        /\ cache' = offer_trades(cache, trades)
        /\ resp' = NoResp
        /\ UNCHANGED <<traders, market, queue, worker, is_shutdown, recovering,
                       consumer, fed, lifeVars>>

NextStore == AddIfAbsent \/ Del \/ OfferTrades

SpecStore == InitJournal /\ [][NextStore]_vars

---------------------------------------------------------------------------
(* SpecLife: the life of the engine process for one symbol: feeds that     *)
(* pass add_if_absent and then Trader::feed, the worker's select loop,      *)
(* shutdown, and a new start of the process over the persistence the       *)
(* stopped one left.  handler_match holds the engine's mutex for the whole  *)
(* of MatchEngine::feed and shutdown_signal holds it for the whole of       *)
(* shutdown, so at most one of these calls is under way.                    *)

\* more feeds than this are not followed
MaxLifeFeed == 2
\* the ids the feeds use
LifeIds == {1, 2}

\* the request bodies of the ingress: limit orders of one unit at one price,
\* stamped by the ingress (no ts in the body)
LifeParams ==
    {q \in [id : LifeIds, symbol : {SymA}, side : {"BUY", "SELL"},
            qty : {1}, price : {Some(1)}, ord_type : {"LIMIT"},
            tif : {Some("GTC"), Some("IOC")},
            action : {"PLACE"}, ts : {None}]
           \cup CancelParams({SymA}, LifeIds) :
        handler_valid(q) /\ q.price = Some(1)}

\* the resting orders of a MarketBook: id and remaining quantity
RestingRemain(mb) ==
    {<<mb.buy.orders[i].id, remain(mb.buy.orders[i])>> : i \in 1..Len(mb.buy.orders)}
    \cup
    {<<mb.sell.orders[i].id, remain(mb.sell.orders[i])>> : i \in 1..Len(mb.sell.orders)}

\* ZRANGEBYSCORE orders members by score and members of one score by their
\* bytes; the members are the decimal strings of the ids, which for ids of
\* one digit are ordered as the ids are
zset_before(c, s, a, b) ==
    \/ c.scores[s][a] < c.scores[s][b]
    \/ c.scores[s][a] = c.scores[s][b] /\ a < b

\* the ids of a set as ZRANGEBYSCORE returns them
zrange(c, s, members) ==
    CHOOSE seq \in [1..Cardinality(members) -> members] :
        /\ \A j \in 1..Cardinality(members), k \in 1..Cardinality(members) :
               j < k => zset_before(c, s, seq[j], seq[k])

\* CacheManager::get_ids: ZRANGEBYSCORE id_key 0 now
get_ids(c, s, now) ==
    zrange(c, s, {i \in c.ids[s] : c.scores[s][i] >= 0 /\ c.scores[s][i] <= now})

\* Order::from_map: every field is read with get(..).unwrap() and parsed; the
\* values are what to_string and the script wrote, which parse back to what
\* was written; a hash that lacks a field makes it panic
from_map(h) ==
    [panic |-> ~(Range(OrderFields) \subseteq DOMAIN h),
     order |-> h]

\* CacheManager::get_orders_by_ids: HGETALL of each id, the empty replies
\* dropped, from_map on the others; [panic, orders]
get_orders_by_ids(c, s, ids) ==
    [panic |-> \E j \in 1..Len(ids) :
                   hash_exists(c.orders[s][ids[j]]) /\ from_map(c.orders[s][ids[j]]).panic,
     orders |-> [j \in 1..Len(SelectSeq(ids, LAMBDA i : hash_exists(c.orders[s][i]))) |->
                    from_map(c.orders[s][SelectSeq(ids, LAMBDA i : hash_exists(c.orders[s][i]))[j]]).order]]

\* new_trader's recovery: the persisted orders of the symbol in the order
\* they are fed to the Trader; [panic, orders]
recover(c, s, now) == get_orders_by_ids(c, s, get_ids(c, s, now))

\* main: an engine over an empty persistence, for a configuration with no
\* symbol or with SymA, and either sink
InitLife ==
    /\ traders \in {{}, {SymA}}
    /\ market = [s \in Symbols |-> NewMarketBook(s, 0)]
    /\ queue = [s \in Symbols |-> <<>>]
    /\ worker = [s \in Symbols |-> IdleWorker]
    /\ is_shutdown = FALSE
    /\ cache = EmptyCache
    /\ resp = NoResp
    /\ n = 0
    /\ recovering = FALSE
    /\ consumer \in {"Console", "RedisQueue"}
    /\ fed = {}
    /\ launched(traders)
    /\ restarted = FALSE
    /\ snapshot = {}

\* a feed that goes on to Trader::feed without its insert: C13 tells it from
\* feed_persist
feed_persist_skip(order, a) ==
    /\ cache' = cache
    /\ resp' = [req |-> Some(order), err |-> "none"]
    /\ feeding' = Some(order)

\* MatchEngine::feed as far as Trader::feed: the is_shutdown test and, for a
\* PLACE, add_if_absent; a is what add_if_absent gave, [ok, cache]
feed_persist(order, a) ==
    /\ cache' = (IF is_shutdown THEN cache ELSE a.cache)
    /\ resp' = [req |-> Some(order),
                err |-> IF is_shutdown THEN "engine stopping or stopped"
                        ELSE IF ~a.ok THEN "order existed"
                        ELSE "none"]
    /\ feeding' = (IF is_shutdown \/ ~a.ok THEN None ELSE Some(order))

\* handler_match takes the engine's mutex, stamps the order and calls
\* MatchEngine::feed, which runs up to the call of Trader::feed
FeedPersist ==
    \E param \in LifeParams :
        /\ n < MaxLifeFeed
        /\ stopper \in {"idle", "returned"}
        /\ feeding = None
        /\ n' = n + 1
        /\ recovering' = FALSE
        /\ feed_persist(to_order(param, now_ts),
                        IF param.action = "PLACE"
                        THEN add_if_absent(cache, to_order(param, now_ts))
                        ELSE [ok |-> TRUE, cache |-> cache])
        /\ UNCHANGED <<traders, market, queue, worker, is_shutdown, consumer, fed,
                       ctx, handlers, stopper, restarted, snapshot>>

\* a Trader::feed that does not wait for room in the queue: C23 tells it
\* from FeedSend
FeedSend_unbounded ==
    /\ feeding # None
    /\ feeding' = None
    /\ resp' = [req |-> feeding, err |-> "ok"]
    /\ queue' = IF feeding[1].symbol \in traders
                THEN [queue EXCEPT ![feeding[1].symbol] = Append(@, feeding[1])]
                ELSE queue
    /\ fed' = IF feeding[1].action = "PLACE"
              THEN fed \cup {<<feeding[1].symbol, feeding[1].id>>}
              ELSE fed
    /\ UNCHANGED <<traders, market, worker, is_shutdown, cache, n, recovering,
                   consumer, ctx, handlers, stopper, restarted, snapshot>>

\* the rest of MatchEngine::feed: Trader::feed of the symbol's Trader, if
\* there is one; req_sender.send fails once the worker closed the receiver
\* and waits while the channel is full
FeedSend ==
    /\ feeding # None
    /\ (feeding[1].symbol \in traders /\ worker[feeding[1].symbol].pc # "exited")
           => Len(queue[feeding[1].symbol]) < QueueCap
    /\ feeding' = None
    /\ IF feeding[1].symbol \in traders /\ worker[feeding[1].symbol].pc = "exited"
       THEN /\ resp' = [req |-> feeding, err |-> "channel closed"]
            /\ UNCHANGED <<queue, fed>>
       ELSE /\ resp' = [req |-> feeding, err |-> "ok"]
            /\ queue' = IF feeding[1].symbol \in traders
                        THEN [queue EXCEPT ![feeding[1].symbol] = Append(@, feeding[1])]
                        ELSE queue
            /\ fed' = IF feeding[1].action = "PLACE"
                      THEN fed \cup {<<feeding[1].symbol, feeding[1].id>>}
                      ELSE fed
    /\ UNCHANGED <<traders, market, worker, is_shutdown, cache, n, recovering,
                   consumer, ctx, handlers, stopper, restarted, snapshot>>

\* a worker that the stop signal ends where it is, be it at work on a
\* request: C17 tells it from WorkerStop
WorkerStop_midway ==
    /\ worker[SymA].pc \in {"recv", "sink"}
    /\ ctx[SymA] = "sent"
    /\ worker' = [worker EXCEPT ![SymA].pc = "exited"]
    /\ ctx' = [ctx EXCEPT ![SymA] = "dropped"]
    /\ UNCHANGED <<traders, market, queue, is_shutdown, cache, resp, n, recovering,
                   consumer, fed, handlers, stopper, feeding, restarted, snapshot>>

\* the worker's select takes the stop signal: it leaves the loop, closes the
\* receiver of its queue and ends, which drops its receiver of ctx
WorkerStop ==
    /\ worker[SymA].pc = "recv"
    /\ ctx[SymA] = "sent"
    /\ worker' = [worker EXCEPT ![SymA].pc = "exited"]
    /\ ctx' = [ctx EXCEPT ![SymA] = "dropped"]
    /\ UNCHANGED <<traders, market, queue, is_shutdown, cache, resp, n, recovering,
                   consumer, fed, handlers, stopper, feeding, restarted, snapshot>>

\* MatchEngine::shutdown up to the loop over the handlers: ctx.send(true)
\* .unwrap(); send fails when no receiver of ctx is left
Shutdown ==
    /\ stopper \in {"idle", "returned"}
    /\ feeding = None
    /\ ~is_shutdown
    /\ IF \A s \in Symbols : ctx[s] \notin {"open", "sent"}
       THEN /\ stopper' = "panicked"
            /\ UNCHANGED ctx
       ELSE /\ stopper' = "joining"
            /\ ctx' = [s \in Symbols |-> IF ctx[s] = "open" THEN "sent" ELSE ctx[s]]
    /\ UNCHANGED <<traders, market, queue, worker, is_shutdown, cache, resp, n,
                   recovering, consumer, fed, handlers, feeding, restarted, snapshot>>

\* MatchEngine::shutdown, the loop: every JoinHandle is drained and awaited
ShutdownJoin ==
    /\ stopper = "joining"
    /\ \A s \in handlers : worker[s].pc = "exited"
    /\ handlers' = {}
    /\ stopper' = "returned"
    /\ snapshot' = RestingRemain(market[SymA])
    /\ UNCHANGED <<traders, market, queue, worker, is_shutdown, cache, resp, n,
                   recovering, consumer, fed, ctx, feeding, restarted>>

\* the next process has built its engine: new_trader launched the worker
\* and fed it what recover gave, r = [panic, orders]
restart(r) ==
    /\ stopper' = (IF r.panic THEN "panicked" ELSE "idle")
    /\ queue' = [s \in Symbols |-> IF s = SymA /\ ~r.panic THEN r.orders ELSE <<>>]

\* the process ends after shutdown returned and is started again with the
\* same configuration over the same persistence: MatchEngine::new, then
\* new_trader with its recovery
Restart ==
    /\ stopper = "returned"
    /\ feeding = None
    /\ ~restarted
    /\ restarted' = TRUE
    /\ recovering' = TRUE
    /\ market' = [s \in Symbols |-> NewMarketBook(s, now_ts)]
    /\ worker' = [s \in Symbols |-> IdleWorker]
    /\ ctx' = [s \in Symbols |-> IF s \in traders THEN "open" ELSE "none"]
    /\ handlers' = traders
    /\ resp' = NoResp
    /\ restart(recover(cache, SymA, now_ts))
    /\ UNCHANGED <<traders, is_shutdown, cache, n, consumer, fed, feeding, snapshot>>

NextLife ==
    \/ FeedPersist \/ FeedSend
    \/ WorkerRecv \/ SinkConsole \/ SinkRedis \/ WorkerStop
    \/ Shutdown \/ ShutdownJoin \/ Restart

SpecLife == InitLife /\ [][NextLife]_vars

\* the worker's select has a request to take
RecvReady == worker[SymA].pc = "recv" /\ queue[SymA] # <<>>

\* the runtime schedules a spawned task that can go on: the sink the worker
\* awaits completes, a select with the stop signal ready does not wait for
\* ever, and neither does one with a request ready (weak fairness of
\* WorkerRecv, whose enabling condition is RecvReady)
FairLife ==
    /\ SpecLife
    /\ WF_vars(SinkConsole) /\ WF_vars(SinkRedis) /\ WF_vars(WorkerStop)
    /\ ([]<>(~RecvReady) \/ []<><<WorkerRecv>>_vars)

---------------------------------------------------------------------------
(* SpecPair: an engine with the Traders of two symbols behind the one      *)
(* mutex of the ingress.  The requests for SymA are CANCELs numbered as    *)
(* they are fed, which tells them apart in the queue and leaves the        *)
(* persistence alone (n counts them); those for SymB are PLACEs of fresh   *)
(* ids.  SymA is fed until its queue is full with its worker in the sink   *)
(* and one more feed waiting.                                              *)

\* more feeds for SymA than this are not followed: the capacity of the
\* queue, one request in the worker's hands and one feed that waits
MaxPairFeed == 18

\* the k-th request body for SymA
PairParamA(k) ==
    [id |-> k, symbol |-> SymA, side |-> "BUY", qty |-> 1, price |-> Some(1),
     ord_type |-> "LIMIT", tif |-> None, action |-> "CANCEL", ts |-> Some(1)]

\* the request bodies for SymB: a BUY that rests and a SELL that crosses it
PairParamsB ==
    [id : {1}, symbol : {SymB}, side : {"BUY"},
     qty : {1}, price : {Some(1)}, ord_type : {"LIMIT"},
     tif : {Some("GTC")}, action : {"PLACE"}, ts : {Some(1)}]
    \cup
    [id : {2}, symbol : {SymB}, side : {"SELL"},
     qty : {1}, price : {Some(1)}, ord_type : {"LIMIT"},
     tif : {Some("GTC"), Some("IOC")}, action : {"PLACE"}, ts : {Some(1)}]

\* init_engine for a configuration with both symbols over an empty
\* persistence
InitPair ==
    /\ traders = {SymA, SymB}
    /\ market = [s \in Symbols |-> NewMarketBook(s, 0)]
    /\ queue = [s \in Symbols |-> <<>>]
    /\ worker = [s \in Symbols |-> IdleWorker]
    /\ is_shutdown = FALSE
    /\ cache = EmptyCache
    /\ resp = NoResp
    /\ n = 0
    /\ recovering = FALSE
    /\ consumer \in {"Console", "RedisQueue"}
    /\ fed = {}
    /\ launched({SymA, SymB})
    /\ restarted = FALSE
    /\ snapshot = {}

\* handler_match for SymA: the engine's mutex is taken and MatchEngine::feed
\* runs up to the call of Trader::feed (a CANCEL passes add_if_absent by)
FeedPairA ==
    /\ n < MaxPairFeed
    /\ feeding = None
    /\ handler_valid(PairParamA(n + 1))
    /\ n' = n + 1
    /\ feed_persist(to_order(PairParamA(n + 1), now_ts), [ok |-> TRUE, cache |-> cache])
    /\ UNCHANGED <<traders, market, queue, worker, is_shutdown, recovering,
                   consumer, fed, ctx, handlers, stopper, restarted, snapshot>>

\* handler_match for SymB, for an id that was not fed before
FeedPairB ==
    \E param \in PairParamsB :
        /\ feeding = None
        /\ handler_valid(param)
        /\ <<SymB, param.id>> \notin fed
        /\ feed_persist(to_order(param, now_ts),
                        add_if_absent(cache, to_order(param, now_ts)))
        /\ UNCHANGED <<traders, market, queue, worker, is_shutdown, n, recovering,
                       consumer, fed, ctx, handlers, stopper, restarted, snapshot>>

\* the worker of s has run try_match / try_cancel on order: r = [trades,
\* market, ok]
trader_handled(s, order, r) ==
    /\ market' = [market EXCEPT ![s] = r.market]
    /\ worker' = [worker EXCEPT ![s] =
                    [pc |-> "sink", req |-> Some(order), trades |-> r.trades]]

\* the worker of s: receiver.recv() and handle_request up to
\* consumer.consume
TraderRecv(s) ==
    /\ s \in traders
    /\ worker[s].pc = "recv"
    /\ queue[s] # <<>>
    /\ trader_handled(s, Head(queue[s]),
                      handle_request(market[s], Head(queue[s]), now_ts))
    /\ queue' = [queue EXCEPT ![s] = Tail(@)]
    /\ UNCHANGED <<traders, is_shutdown, cache, resp, n, recovering, consumer, fed,
                   lifeVars>>

\* the worker of s: consumer.consume(trades) of either sink
TraderSink(s) ==
    /\ s \in traders
    /\ worker[s].pc = "sink"
    /\ cache' = (IF consumer = "RedisQueue"
                 THEN offer_trades(cache, worker[s].trades)
                 ELSE cache)
    /\ worker' = [worker EXCEPT ![s] = IdleWorker]
    /\ UNCHANGED <<traders, market, queue, is_shutdown, resp, n, recovering,
                   consumer, fed, lifeVars>>

\* the workers are tasks of their own: any of them may take the next step
TradersRecv == \E s \in Symbols : TraderRecv(s)
TradersSink == \E s \in Symbols : TraderSink(s)

NextPair == FeedPairA \/ FeedPairB \/ FeedSend \/ TradersRecv \/ TradersSink

SpecPair == InitPair /\ [][NextPair]_vars

---------------------------------------------------------------------------
(* SpecStart: the engine from the start of the process: init_engine calls  *)
(* new_trader for each symbol the configuration lists, which may list a    *)
(* symbol twice or leave one out, then the ingress serves feeds for either *)
(* symbol; the process ends with shutdown and is started once more over    *)
(* the persistence it left, with a configuration of its own.  While        *)
(* init_engine runs, stopper is "starting".  new_trader feeds the orders   *)
(* of its recovery one by one while the worker it launched takes them; they *)
(* are fewer than the queue holds, so none of these sends waits and the    *)
(* recovery is one step.                                                   *)

\* more feeds than this are not followed
MaxStartFeed == 2
\* a ts of a request body that is later than every start of the process
LateTs == MaxStartFeed + 1

\* the request bodies of the ingress: a PLACE of one unit that rests,
\* stamped by the ingress or by the client
StartParams ==
    [id : {1}, symbol : Symbols, side : {"BUY"},
     qty : {1}, price : {Some(1)}, ord_type : {"LIMIT"},
     tif : {Some("GTC")}, action : {"PLACE"}, ts : {None, Some(LateTs)}]

\* main before init_engine's loop: MatchEngine::new over an empty
\* persistence, no Trader yet
InitStart ==
    /\ traders = {}
    /\ market = [s \in Symbols |-> NewMarketBook(s, 0)]
    /\ queue = [s \in Symbols |-> <<>>]
    /\ worker = [s \in Symbols |-> IdleWorker]
    /\ is_shutdown = FALSE
    /\ cache = EmptyCache
    /\ resp = NoResp
    /\ n = 0
    /\ recovering = TRUE
    /\ consumer \in {"Console", "RedisQueue"}
    /\ fed = {}
    /\ ctx = [s \in Symbols |-> "none"]
    /\ handlers = {}
    /\ stopper = "starting"
    /\ feeding = None
    /\ restarted = FALSE
    /\ snapshot = {}

\* new_trader past its test: Trader::new, launch with a receiver of ctx, the
\* JoinHandle and the Trader kept, then the recovery r = [panic, orders]
\* fed to the Trader; get_orders_by_ids panics on a record it cannot read
registered(s, r) ==
    /\ traders' = traders \cup {s}
    /\ handlers' = handlers \cup {s}
    /\ ctx' = [ctx EXCEPT ![s] = "open"]
    /\ market' = [market EXCEPT ![s] = NewMarketBook(s, now_ts)]
    /\ worker' = [worker EXCEPT ![s] = IdleWorker]
    /\ queue' = [queue EXCEPT ![s] = IF r.panic THEN <<>> ELSE r.orders]
    /\ stopper' = (IF r.panic THEN "panicked" ELSE stopper)

\* a new_trader that registers whatever the registry holds: C21 tells it
\* from new_trader
new_trader_again(s) ==
    registered(s, recover(cache, s, now_ts))

\* MatchEngine::new_trader, called by init_engine, which unwraps its
\* result: the error for a symbol that has a Trader ends the process
new_trader(s) ==
    IF s \in traders
    THEN /\ stopper' = "panicked"
         /\ UNCHANGED <<traders, handlers, ctx, market, worker, queue>>
    ELSE registered(s, recover(cache, s, now_ts))

\* the symbols the configuration may list: that of the first process has
\* no Trader for SymB, that of the second is any
Configured == IF restarted THEN Symbols ELSE {SymA}

\* init_engine's loop: the next symbol of the configuration
NewTrader ==
    \E s \in Configured :
        /\ stopper = "starting"
        /\ new_trader(s)
        /\ UNCHANGED <<is_shutdown, cache, resp, n, recovering, consumer, fed,
                       feeding, restarted, snapshot>>

\* init_engine returns and start_http_server serves the ingress
Serve ==
    /\ stopper = "starting"
    /\ stopper' = "idle"
    /\ UNCHANGED <<traders, market, queue, worker, is_shutdown, cache, resp, n,
                   recovering, consumer, fed, ctx, handlers, feeding, restarted,
                   snapshot>>

\* handler_match: the engine's mutex is taken, the order stamped and
\* MatchEngine::feed run up to the call of Trader::feed
FeedStart ==
    \E param \in StartParams :
        /\ n < MaxStartFeed
        /\ stopper \in {"idle", "returned"}
        /\ feeding = None
        /\ handler_valid(param)
        /\ n' = n + 1
        /\ recovering' = FALSE
        /\ feed_persist(to_order(param, now_ts),
                        add_if_absent(cache, to_order(param, now_ts)))
        /\ UNCHANGED <<traders, market, queue, worker, is_shutdown, consumer, fed,
                       ctx, handlers, stopper, restarted, snapshot>>

\* the worker of s takes the stop signal in its select
TraderStop(s) ==
    /\ s \in traders
    /\ worker[s].pc = "recv"
    /\ ctx[s] = "sent"
    /\ worker' = [worker EXCEPT ![s].pc = "exited"]
    /\ ctx' = [ctx EXCEPT ![s] = "dropped"]
    /\ UNCHANGED <<traders, market, queue, is_shutdown, cache, resp, n, recovering,
                   consumer, fed, handlers, stopper, feeding, restarted, snapshot>>

TradersStop == \E s \in Symbols : TraderStop(s)

\* the process has ended, by the return of shutdown or by a panic, and is
\* started again over the same persistence: main up to init_engine's loop
StartAgain ==
    /\ stopper \in {"returned", "panicked"}
    /\ feeding = None
    /\ ~restarted
    /\ restarted' = TRUE
    /\ recovering' = TRUE
    /\ stopper' = "starting"
    /\ traders' = {}
    /\ handlers' = {}
    /\ ctx' = [s \in Symbols |-> "none"]
    /\ market' = [s \in Symbols |-> NewMarketBook(s, now_ts)]
    /\ queue' = [s \in Symbols |-> <<>>]
    /\ worker' = [s \in Symbols |-> IdleWorker]
    /\ resp' = NoResp
    /\ UNCHANGED <<is_shutdown, cache, n, consumer, fed, feeding, snapshot>>

NextStart ==
    \/ NewTrader \/ Serve
    \/ FeedStart \/ FeedSend
    \/ TradersRecv \/ TradersSink \/ TradersStop
    \/ Shutdown \/ ShutdownJoin \/ StartAgain

SpecStart == InitStart /\ [][NextStart]_vars

---------------------------------------------------------------------------
(* What a step of the worker shows: the request it took, the batch it      *)
(* hands to the sink, the book before (unprimed) and after (primed).       *)

RECURSIVE SumQty(_)
SumQty(trades) ==
    IF trades = <<>> THEN 0 ELSE trades[1].qty + SumQty(Tail(trades))

\* the fills of a batch, and its cancel / partial-cancel events
FillsOf(trades) == SelectSeq(trades, LAMBDA t : t.qty > 0)
EventsOf(trades) == SelectSeq(trades, LAMBDA t : t.qty = 0)

\* the resting orders opposite to, and on the side of, a request
MakerSide(mb, req) == IF req.side = "BUY" THEN Range(mb.sell.orders) ELSE Range(mb.buy.orders)
TakerSide(mb, req) == IF req.side = "BUY" THEN Range(mb.buy.orders) ELSE Range(mb.sell.orders)
Resting(mb) == Range(mb.buy.orders) \cup Range(mb.sell.orders)

\* the resting order with this id (ids are unique among resting orders)
ById(orders, id) == CHOOSE o \in orders : o.id = id
HasId(orders, id) == \E o \in orders : o.id = id

\* o has priority over m, both resting on the same side
Better(o, m) ==
    \/ (m.side = "BUY" /\ o.price > m.price)
    \/ (m.side = "SELL" /\ o.price < m.price)
    \/ (o.price = m.price /\ o.id < m.id)

\* the worker is between try_match / try_cancel and the sink
InSink == worker[SymA].pc = "sink"
Req == worker[SymA].req[1]
Batch == worker[SymA].trades
Book == market[SymA]

\* the step that runs try_match, and the one that runs try_cancel
MatchStep ==
    /\ worker[SymA].pc = "recv" /\ worker'[SymA].pc = "sink"
    /\ worker'[SymA].req[1].action = "PLACE"
CancelStep ==
    /\ worker[SymA].pc = "recv" /\ worker'[SymA].pc = "sink"
    /\ worker'[SymA].req[1].action = "CANCEL"

---------------------------------------------------------------------------
(* C1: quantity conservation.                                              *)

C1_Post(pre, post, req, trades) ==
    LET fills == FillsOf(trades)
        P == MakerSide(pre, req)
        Q == MakerSide(post, req)
        total == SumQty(fills)
    IN  \* the maker of every fill gains exactly the fill's qty
        /\ \A k \in 1..Len(fills) :
              /\ HasId(P, fills[k].maker_oid)
              /\ LET m == ById(P, fills[k].maker_oid)
                 IN  IF HasId(Q, m.id)
                     THEN ById(Q, m.id).acc_fill_qty = m.acc_fill_qty + fills[k].qty
                     ELSE m.acc_fill_qty + fills[k].qty = m.qty
              /\ \A l \in 1..Len(fills) : l # k => fills[l].maker_oid # fills[k].maker_oid
              /\ fills[k].taker_oid = req.id
        \* a maker no fill names keeps its quantities
        /\ \A m \in P : (\A k \in 1..Len(fills) : fills[k].maker_oid # m.id) => m \in Q
        \* the taker gains the sum of its fills, and never more than its qty
        /\ req.acc_fill_qty + total <= req.qty
        /\ HasId(TakerSide(post, req), req.id) =>
              ById(TakerSide(post, req), req.id).acc_fill_qty = req.acc_fill_qty + total
        /\ Len(fills) > 0 =>
              (fills[Len(fills)].taker_state = "FULL_FILLED"
                  <=> req.acc_fill_qty + total = req.qty)
        \* afterwards no order holds more than its qty
        /\ \A o \in Resting(post) : o.acc_fill_qty <= o.qty

\* C1: every fill trade (qty > 0) of try_match adds exactly its qty to the
\* acc_fill_qty of the taker and of the maker it names, nothing else changes a
\* resting order's acc_fill_qty, and no order ever has acc_fill_qty > qty.
C1_QuantityConservation ==
    [][MatchStep => C1_Post(market[SymA], market'[SymA],
                            worker'[SymA].req[1], worker'[SymA].trades)]_vars

\* a taker filled by two makers, the second of which stays, partially filled
C1_Witness ==
    /\ InSink /\ Req.action = "PLACE"
    /\ Len(FillsOf(Batch)) = 2
    /\ HasId(MakerSide(Book, Req), Batch[2].maker_oid)
    /\ ById(MakerSide(Book, Req), Batch[2].maker_oid).acc_fill_qty = Batch[2].qty


---------------------------------------------------------------------------
(* C2: price-time priority.                                                *)

C2_Post(pre, req, trades) ==
    LET fills == FillsOf(trades)
        P == MakerSide(pre, req)
    IN  \A k \in 1..Len(fills) :
           /\ HasId(P, fills[k].maker_oid)
           /\ LET m == ById(P, fills[k].maker_oid)
                  \* resting when fill k happens: not used up by an earlier fill
                  others == {o \in P : /\ o.id # m.id
                                       /\ \A j \in 1..(k - 1) : fills[j].maker_oid # o.id}
              IN  \A o \in others : ~Better(o, m)

\* C2: a resting maker is filled only when no other order resting on its side
\* has a strictly better price (higher for BUY, lower for SELL) or the same
\* price and a lower id, whatever the order in which the makers arrived.
C2_PriceTimePriority ==
    [][MatchStep => C2_Post(market[SymA], worker'[SymA].req[1],
                            worker'[SymA].trades)]_vars

\* a maker was filled ahead of a resting order of lower id and worse price,
\* and of one with the same price and a higher id
C2_Witness ==
    /\ InSink /\ Req.action = "PLACE"
    /\ Len(FillsOf(Batch)) >= 1
    /\ \E o \in MakerSide(Book, Req) :
          /\ o.id < Batch[1].maker_oid
          /\ o.price # Batch[1].px
          /\ o.acc_fill_qty = 0

\* equal prices: the lower id was filled, the higher id still rests
C2_WitnessTie ==
    /\ InSink /\ Req.action = "PLACE"
    /\ Len(FillsOf(Batch)) >= 1
    /\ \E o \in MakerSide(Book, Req) :
          o.id > Batch[1].maker_oid /\ o.price = Batch[1].px

---------------------------------------------------------------------------
(* C3: crossing correctness.                                               *)

C3_Post(pre, req, trades) ==
    LET fills == FillsOf(trades)
        P == MakerSide(pre, req)
    IN  /\ \A k \in 1..Len(fills) :
              /\ HasId(P, fills[k].maker_oid)
              /\ LET m == ById(P, fills[k].maker_oid)
                 IN  /\ (req.ord_type = "LIMIT" /\ req.side = "BUY")
                            => ~(req.price < m.price)
                     /\ (req.ord_type = "LIMIT" /\ req.side = "SELL")
                            => ~(req.price > m.price)
        \* a MARKET taker trades with the head maker at any price; only its own
        \* FOK condition (the head cannot fill it whole) keeps it from trading
        /\ (req.ord_type = "MARKET" /\ P # {}) =>
              LET best == CHOOSE m \in P : \A o \in P : o.id # m.id => ~Better(o, m)
              IN  \/ /\ Len(fills) > 0
                     /\ fills[1].maker_oid = best.id
                  \/ /\ req.tif = "FOK"
                     /\ remain(best) < remain(req)
                     /\ Len(fills) = 0

\* C3: no fill has a LIMIT BUY taker priced below its maker or a LIMIT SELL
\* taker priced above its maker; a MARKET taker trades with the head maker
\* whatever the prices are.
C3_CrossingCorrectness ==
    [][MatchStep => C3_Post(market[SymA], worker'[SymA].req[1],
                            worker'[SymA].trades)]_vars

\* a LIMIT taker filled by a maker at its price stopped at the next maker,
\* whose price it does not reach, and rests with what is left
C3_Witness ==
    /\ InSink /\ Req.action = "PLACE" /\ Req.ord_type = "LIMIT"
    /\ Len(FillsOf(Batch)) = 1
    /\ HasId(TakerSide(Book, Req), Req.id)
    /\ \E o \in MakerSide(Book, Req) :
          IF Req.side = "BUY" THEN o.price > Req.price ELSE o.price < Req.price

\* a MARKET BUY (price 0) filled by a SELL maker priced above it
C3_WitnessMarket ==
    /\ InSink /\ Req.action = "PLACE" /\ Req.ord_type = "MARKET"
    /\ Req.side = "BUY"
    /\ Len(FillsOf(Batch)) >= 1
    /\ Batch[1].px > Req.price

---------------------------------------------------------------------------
(* C4: the trade price.                                                    *)

C4_Post(pre, req, trades) ==
    LET fills == FillsOf(trades)
        P == MakerSide(pre, req)
    IN  \A k \in 1..Len(fills) :
           /\ HasId(P, fills[k].maker_oid)
           /\ fills[k].px = ById(P, fills[k].maker_oid).price

\* C4: the px of every fill trade is the price of the maker order it was
\* matched against, never the taker's price.
C4_TradePrice ==
    [][MatchStep => C4_Post(market[SymA], worker'[SymA].req[1],
                            worker'[SymA].trades)]_vars

\* a LIMIT taker filled at a price other than its own
C4_Witness ==
    /\ InSink /\ Req.action = "PLACE" /\ Req.ord_type = "LIMIT"
    /\ Len(FillsOf(Batch)) >= 1
    /\ Batch[1].px # Req.price

---------------------------------------------------------------------------
(* C5: FOK is all or nothing.                                              *)

C5_Post(pre, post, req, trades) ==
    LET fills == FillsOf(trades)
    IN  req.tif = "FOK" =>
           \/ /\ SumQty(fills) = remain(req)
              /\ Len(fills) > 0
              /\ fills[Len(fills)].taker_state = "FULL_FILLED"
           \/ /\ Len(fills) = 0
              /\ Len(trades) = 1
              /\ trades[1].taker_oid = req.id
              /\ trades[1].taker_state = "CANCELED"
              /\ post.buy = pre.buy
              /\ post.sell = pre.sell

\* C5: after try_match of a FOK taker either the taker is fully filled, or the
\* batch holds no fill and exactly one CANCELED event and no maker was changed
\* or removed.
C5_FokAllOrNothing ==
    [][MatchStep => C5_Post(market[SymA], market'[SymA],
                            worker'[SymA].req[1], worker'[SymA].trades)]_vars

\* a FOK taker was cancelled although two makers it crosses hold, together,
\* as much as it asks for
C5_Witness ==
    /\ InSink /\ Req.action = "PLACE" /\ Req.tif = "FOK"
    /\ Len(Batch) = 1 /\ Batch[1].taker_state = "CANCELED"
    /\ \E a, b \in MakerSide(Book, Req) :
          /\ a.id # b.id
          /\ can_trade(Req, a) /\ can_trade(Req, b)
          /\ remain(a) + remain(b) >= Req.qty

\* a FOK taker filled whole
C5_WitnessFilled ==
    /\ InSink /\ Req.action = "PLACE" /\ Req.tif = "FOK"
    /\ Len(Batch) = 1 /\ Batch[1].taker_state = "FULL_FILLED"
    /\ Batch[1].qty = Req.qty

---------------------------------------------------------------------------
(* C6: IOC never rests.                                                    *)

\* C6: once try_match has handled an IOC taker the taker is in neither book;
\* if it was not filled whole the batch ends with exactly one event for it,
\* CANCELED when the batch has no fill and PARTIAL_CANCELLED when it has one.
C6_IocNeverRests ==
    (InSink /\ Req.action = "PLACE" /\ Req.tif = "IOC") =>
        LET fills == FillsOf(Batch)
            events == EventsOf(Batch)
        IN  /\ ~HasId(Resting(Book), Req.id)
            /\ SumQty(fills) < remain(Req) =>
                  /\ Len(events) = 1
                  /\ Batch[Len(Batch)] = events[1]
                  /\ events[1].taker_oid = Req.id
                  /\ events[1].taker_state =
                        (IF Len(fills) = 0 THEN "CANCELED" ELSE "PARTIAL_CANCELLED")
            /\ SumQty(fills) = remain(Req) => Len(events) = 0

\* an IOC taker of qty 2 got 1 and the batch ends with its PARTIAL_CANCELLED
C6_Witness ==
    /\ InSink /\ Req.action = "PLACE" /\ Req.tif = "IOC"
    /\ Len(Batch) = 2
    /\ Batch[1].qty = 1
    /\ Batch[2].taker_state = "PARTIAL_CANCELLED"
    /\ Req.qty = 2

\* an IOC taker that met no maker it can trade with: one CANCELED event
C6_WitnessCanceled ==
    /\ InSink /\ Req.action = "PLACE" /\ Req.tif = "IOC"
    /\ Len(Batch) = 1
    /\ Batch[1].taker_state = "CANCELED"
    /\ MakerSide(Book, Req) # {}

---------------------------------------------------------------------------
(* C7: the GTC LIMIT residual rests.                                       *)

\* a GTC LIMIT taker that the match loop left with unfilled quantity
C7_Case ==
    /\ InSink /\ Req.action = "PLACE"
    /\ Req.tif = "GTC" /\ Req.ord_type = "LIMIT"
    /\ SumQty(FillsOf(Batch)) < remain(Req)

\* C7 as stated: the taker rests on its own side with remain equal to its qty
\* minus the sum of its fills in this batch, and the batch has no cancel or
\* partial-cancel event.
C7_Original ==
    C7_Case =>
        /\ HasId(TakerSide(Book, Req), Req.id)
        /\ remain(ById(TakerSide(Book, Req), Req.id)) = Req.qty - SumQty(FillsOf(Batch))
        /\ EventsOf(Batch) = <<>>

\* C7 (amended): the taker rests on its own side with remain equal to what
\* remained of it when it was handed in (qty - acc_fill_qty, which is qty for
\* an order from the ingress, less for a partially filled order fed by
\* recovery) minus the sum of its fills in this batch, and the batch has no
\* cancel or partial-cancel event.
C7_GtcResidualRests ==
    C7_Case =>
        /\ HasId(TakerSide(Book, Req), Req.id)
        /\ ~HasId(MakerSide(Book, Req), Req.id)
        /\ remain(ById(TakerSide(Book, Req), Req.id)) =
              remain(Req) - SumQty(FillsOf(Batch))
        /\ EventsOf(Batch) = <<>>

\* a recovered order, partially filled before, was filled again and rests with
\* less than its qty minus the fills of this batch
C7_Witness ==
    /\ C7_Case
    /\ Req.acc_fill_qty > 0
    /\ HasId(TakerSide(Book, Req), Req.id)
    /\ remain(ById(TakerSide(Book, Req), Req.id)) < Req.qty - SumQty(FillsOf(Batch))

\* an order from the ingress: one fill of 1, the other 1 rests
C7_WitnessFresh ==
    /\ C7_Case
    /\ Req.acc_fill_qty = 0 /\ Req.qty = 2
    /\ Len(Batch) = 1 /\ Batch[1].qty = 1
    /\ HasId(TakerSide(Book, Req), Req.id)
    /\ ById(TakerSide(Book, Req), Req.id).state = "PARTIAL_FILLED"

---------------------------------------------------------------------------
(* C8: idempotent admission (SpecEngine).                                  *)

\* the step is a MatchEngine::feed of a PLACE
FeedPlace == n' = n + 1 /\ resp'.req[1].action = "PLACE"

\* the PLACEs with this id waiting in the Trader's queue
QueuedPlaces(s, id) ==
    {i \in 1..Len(queue[s]) : queue[s][i].action = "PLACE" /\ queue[s][i].id = id}

\* the orders with this id resting in the book
RestingWithId(s, id) == {o \in Resting(market[s]) : o.id = id}

\* at most one order of an id is queued or resting
AtMostOne ==
    \A id \in EngineIds :
        Cardinality(QueuedPlaces(SymA, id)) + Cardinality(RestingWithId(SymA, id)) <= 1

\* the feed was rejected as a duplicate and touched nothing
Rejected ==
    /\ resp'.err = "order existed"
    /\ queue' = queue
    /\ cache' = cache
    /\ market' = market

\* the feed was accepted: persisted and put at the end of the Trader's queue
Accepted ==
    /\ resp'.err = "ok"
    /\ queue'[SymA] = Append(queue[SymA], resp'.req[1])
    /\ resp'.req[1].id \in cache'.ids[SymA]

\* C8 as stated: a PLACE whose (symbol, id) feed has accepted before is
\* rejected with "order existed" and enqueues nothing, and one order of the id
\* at most is in the Trader's hands.
C8_Original ==
    [][/\ (FeedPlace /\ <<resp'.req[1].symbol, resp'.req[1].id>> \in fed) => Rejected
       /\ AtMostOne']_vars

\* C8 (amended): a PLACE whose (symbol, id) is still persisted is rejected with
\* "order existed" and enqueues nothing; one whose (symbol, id) is not
\* persisted is accepted, also when feed has accepted that id before and the
\* Redis sink has since removed the record, the order having reached a
\* deletable state; with the console sink every id accepted before is still
\* persisted. One order of an id at most is queued or resting.
C8_IdempotentAdmission ==
    [][/\ (FeedPlace /\ resp'.req[1].id \in cache.ids[SymA]) => Rejected
       /\ (FeedPlace /\ resp'.req[1].id \notin cache.ids[SymA]) => Accepted
       /\ consumer = "Console" => \A e \in fed : e[2] \in cache.ids[e[1]]
       /\ AtMostOne']_vars

\* the second feed of an id was rejected while the first one's order rests
C8_Witness ==
    /\ resp.err = "order existed"
    /\ resp.req[1].action = "PLACE"
    /\ Cardinality(RestingWithId(SymA, resp.req[1].id)) = 1
    /\ queue[SymA] = <<>>

\* an id was accepted, its order ended, the Redis sink removed the record, and
\* the id was accepted again: its order rests
C8_WitnessAgain ==
    /\ consumer = "RedisQueue"
    /\ resp.err = "ok"
    /\ resp.req[1].action = "PLACE"
    /\ worker[SymA].pc = "sink"
    /\ worker[SymA].req[1] = resp.req[1]
    /\ cache.trades[SymA] > 0
    /\ n = 2

---------------------------------------------------------------------------
(* C9, C10: try_cancel.                                                    *)

\* the book of the side a request names
SideBook(mb, req) == IF req.side = "BUY" THEN mb.buy ELSE mb.sell
OtherBook(mb, req) == IF req.side = "BUY" THEN mb.sell ELSE mb.buy

\* the order a cancel names (its key: price, id, side) is resting
IsResting(mb, cancel) == exist_by_key(SideBook(mb, cancel), OrderKey(cancel))

C9_Post(pre, post, cancel, trades) ==
    IsResting(pre, cancel) =>
        LET before == SideBook(pre, cancel).orders
            after == SideBook(post, cancel).orders
            o == ById(Range(before), cancel.id)
        IN  /\ ~HasId(Resting(post), cancel.id)
            /\ Len(trades) = 1
            /\ trades[1].qty = 0
            /\ trades[1].taker_oid = cancel.id
            /\ trades[1].taker_state =
                  (IF o.acc_fill_qty > 0 THEN "PARTIAL_CANCELLED" ELSE "CANCELED")
            \* the others are there as before, in the same order
            /\ after = SelectSeq(before, LAMBDA x : x.id # cancel.id)
            /\ OtherBook(post, cancel) = OtherBook(pre, cancel)

\* C9: try_cancel of a resting order removes it from its book and emits exactly
\* one event, PARTIAL_CANCELLED if the order had any fill and CANCELED
\* otherwise; every other resting order is unchanged.
C9_CancelSymmetry ==
    [][CancelStep => C9_Post(market[SymA], market'[SymA],
                             worker'[SymA].req[1], worker'[SymA].trades)]_vars

\* a partially filled resting order was cancelled, another order stays
C9_Witness ==
    /\ InSink /\ Req.action = "CANCEL"
    /\ Len(Batch) = 1
    /\ Batch[1].taker_state = "PARTIAL_CANCELLED"
    /\ Resting(Book) # {}

\* an unfilled resting order was cancelled
C9_WitnessCanceled ==
    /\ InSink /\ Req.action = "CANCEL"
    /\ Len(Batch) = 1
    /\ Batch[1].taker_state = "CANCELED"

C10_Post(pre, post, cancel, trades) ==
    ~IsResting(pre, cancel) =>
        /\ trades = <<>>
        /\ post.buy = pre.buy
        /\ post.sell = pre.sell
        /\ post.px = pre.px

\* C10: try_cancel of an order that is not resting returns an empty batch and
\* leaves both books and the last trade price unchanged.
C10_CancelAbsent ==
    [][CancelStep => C10_Post(market[SymA], market'[SymA],
                              worker'[SymA].req[1], worker'[SymA].trades)]_vars

\* a cancel found nothing under its key while an order of the same id rests
\* (at another price or on the other side), after a trade had set the price
C10_Witness ==
    /\ InSink /\ Req.action = "CANCEL"
    /\ Batch = <<>>
    /\ HasId(Resting(Book), Req.id)
    /\ Book.px > 0

\* a cancel of an order that was filled whole before
C10_WitnessGone ==
    /\ InSink /\ Req.action = "CANCEL"
    /\ Batch = <<>>
    /\ ~HasId(Resting(Book), Req.id)
    /\ Book.px > 0

---------------------------------------------------------------------------
(* C20: add_if_absent against what the store held                           *)

\* the index entry or some field of the record of the order is in the store
Existed(c, order) ==
    \/ order.id \in c.ids[order.symbol]
    \/ hash_exists(c.orders[order.symbol][order.id])

\* the index entry and every field of the record of the order are in the store
Stored(c, order) ==
    /\ order.id \in c.ids[order.symbol]
    /\ Range(OrderFields) \subseteq DOMAIN c.orders[order.symbol][order.id]

---------------------------------------------------------------------------
(* C12: one request at a time, in the order of the queue                   *)

\* the worker takes a request: it leaves its queue for handle_request
Dequeue == worker[SymA].pc # "sink" /\ worker'[SymA].pc = "sink"

\* the worker hands the batch of its request to the sink
HandOff == worker[SymA].pc = "sink" /\ worker'[SymA].pc # "sink"

\* C12: within one symbol, requests are processed strictly in the order they
\* were enqueued and one at a time: the request a worker takes is the oldest
\* of its queue, it takes one only when the try_match or try_cancel of the
\* one before and the hand-off of its batch to the sink are done, the batch
\* it hands off is that of the request it took, and a request is only ever
\* enqueued behind those that wait.
C12_FifoOneAtATime ==
    [][/\ Dequeue =>
              /\ worker[SymA].pc = "recv"
              /\ queue[SymA] # <<>>
              /\ worker'[SymA].req = Some(Head(queue[SymA]))
              /\ queue'[SymA] = Tail(queue[SymA])
              /\ worker'[SymA].trades =
                     handle_request(market[SymA], Head(queue[SymA]), now_ts).trades
       /\ worker[SymA].pc = "sink" =>
              /\ market' = market
              /\ queue'[SymA] = queue[SymA]
                     \/ \E o \in Range(queue'[SymA]) : queue'[SymA] = Append(queue[SymA], o)
              /\ worker'[SymA] = worker[SymA] \/ worker'[SymA] = IdleWorker
       /\ (~Dequeue /\ restarted' = restarted) =>
              \/ queue'[SymA] = queue[SymA]
              \/ \E o \in Range(queue'[SymA]) : queue'[SymA] = Append(queue[SymA], o)]_vars

\* a request is in the worker's hands, its batch not yet handed off, while
\* another waits behind it: the replay of a new start and a feed have both
\* enqueued
C12_Witness ==
    /\ worker[SymA].pc = "sink"
    /\ queue[SymA] # <<>>
    /\ ~recovering
    /\ restarted

\* the worker is on the second of two requests fed one after the other
C12_WitnessSecond ==
    /\ worker[SymA].pc = "sink"
    /\ worker[SymA].req[1].action = "PLACE"
    /\ worker[SymA].req[1].ts = 1
    /\ ~restarted

---------------------------------------------------------------------------
(* C13: the insert before the enqueue, one enqueue per id                  *)

\* a feed enqueues its order on the Trader
Enqueue == feeding # None /\ queue'[SymA] = Append(queue[SymA], feeding[1])

\* the index entry and the whole record of the order are in the persistence
Persisted(c, order) ==
    /\ order.id \in c.ids[order.symbol]
    /\ hash_exists(c.orders[order.symbol][order.id])
    /\ c.orders[order.symbol][order.id].id = order.id

\* the PLACEs of an id that were fed and are not yet through the worker: in
\* a feed past its insert, in the queue, or in the worker's hands
PendingPlaces(id) ==
    Cardinality(QueuedPlaces(SymA, id))
    + (IF feeding # None /\ feeding[1].action = "PLACE" /\ feeding[1].id = id
       THEN 1 ELSE 0)
    + (IF worker[SymA].pc = "sink" /\ worker[SymA].req[1].action = "PLACE"
          /\ worker[SymA].req[1].id = id
       THEN 1 ELSE 0)

\* C13: for a PLACE, the successful conditional insert in persistence always
\* precedes its enqueue on the Trader (the feed that enqueues is past its
\* insert, which created the record that is there), and of the placements of
\* one (symbol, id) that are fed while one of them is still on its way at
\* most one is enqueued: the others are rejected and enqueue nothing.
C13_InsertBeforeEnqueue ==
    [][/\ (Enqueue /\ feeding[1].action = "PLACE") =>
              /\ Persisted(cache, feeding[1])
              /\ cache' = cache
       /\ (FeedPlace /\ PendingPlaces(resp'.req[1].id) > 0) =>
              /\ resp'.err = "order existed"
              /\ feeding' = None
              /\ queue' = queue
       /\ \A id \in LifeIds : PendingPlaces(id)' <= 1]_vars

\* a PLACE was rejected while the PLACE of its id that got in before it still
\* waits in the queue
C13_Witness ==
    /\ resp.err = "order existed"
    /\ QueuedPlaces(SymA, resp.req[1].id) # {}

\* a PLACE that was inserted has been enqueued
C13_WitnessEnqueued ==
    /\ resp.err = "ok"
    /\ resp.req[1].action = "PLACE"
    /\ QueuedPlaces(SymA, resp.req[1].id) # {}
    /\ Persisted(cache, resp.req[1])

---------------------------------------------------------------------------
(* C14: feeds after shutdown                                                *)

\* C14: after shutdown() has returned, every MatchEngine::feed call (PLACE or
\* CANCEL, known or unknown symbol) is rejected with an error before any
\* persistence insert and before any enqueue.
C14_FeedAfterShutdown ==
    [][(stopper = "returned" /\ n' = n + 1) =>
           /\ resp'.err = "engine stopping or stopped"
           /\ feeding' = None
           /\ cache' = cache
           /\ queue' = queue]_vars

\* a feed made after shutdown returned has reached the closed queue of the
\* Trader
C14_Witness ==
    /\ stopper = "returned"
    /\ resp.err = "channel closed"

---------------------------------------------------------------------------
(* C15: shutdown, called once or twice                                      *)

\* C15: shutdown() is idempotent: called in any engine state (any number of
\* registered Traders including none, already shut down or not) it returns
\* without panicking, it has set the shutting-down flag when it returns, and
\* a second call has no further effect.
C15_ShutdownIdempotent ==
    [][/\ stopper' # "panicked"
       /\ stopper' = "returned" => is_shutdown'
       /\ stopper = "returned" => stopper' \in {"returned", "idle"}]_vars

\* shutdown has returned for an engine with a Trader
C15_Witness ==
    /\ stopper = "returned"
    /\ handlers = {}
    /\ worker[SymA].pc = "exited"

---------------------------------------------------------------------------
(* C16: what waits in the queue when the worker stops                      *)

\* C16: every request accepted onto a Trader's queue is eventually processed
\* (try_match or try_cancel runs on it and its batch reaches the sink),
\* including requests still queued when shutdown is broadcast: whenever
\* requests wait and the worker is not at work on one, the worker goes on to
\* take one.
C16_EveryRequestProcessed ==
    (queue[SymA] # <<>> /\ worker[SymA].pc # "sink") ~> (worker[SymA].pc = "sink")

\* the worker has exited and left a request in its queue
C16_Witness ==
    /\ worker[SymA].pc = "exited"
    /\ queue[SymA] # <<>>
    /\ stopper = "returned"

---------------------------------------------------------------------------
(* C17: the workers stop, shutdown waits for them                          *)

\* the worker ends
Exit == worker[SymA].pc # "exited" /\ worker'[SymA].pc = "exited"

\* C17: after the stop signal is broadcast, every Trader worker eventually
\* exits, and shutdown() returns only after all of them have exited; a worker
\* never abandons a request mid-way: when it exits no batch waits for the
\* sink, and its exit changes neither the book nor the persistence.
C17_WorkersStop ==
    /\ (stopper = "joining") ~> (\A s \in traders : worker[s].pc = "exited")
    /\ [](stopper = "returned" => \A s \in traders : worker[s].pc = "exited")
    /\ [][Exit => /\ worker[SymA].pc = "recv"
                  /\ market' = market
                  /\ cache' = cache]_vars

\* the stop signal was broadcast while the worker is at work on a request
C17_Witness ==
    /\ stopper = "joining"
    /\ ctx[SymA] = "sent"
    /\ worker[SymA].pc = "sink"

\* shutdown has returned after the worker handed off the batch of a trade
C17_WitnessReturned ==
    /\ stopper = "returned"
    /\ worker[SymA].pc = "exited"
    /\ market[SymA].px > 0
    /\ ~restarted

---------------------------------------------------------------------------
(* C18: the persistence against the book                                   *)

\* the Trader of the symbol has an empty queue and no request in progress: none
\* in the worker's hands and none in a feed on its way to the queue
Quiescent ==
    /\ queue[SymA] = <<>>
    /\ worker[SymA].pc # "sink"
    /\ feeding = None

\* the persistence holds the orders that rest in the book, with their fills
Tracks(c, mb) ==
    /\ c.ids[SymA] = RestingIds(mb)
    /\ \A i \in Ids : hash_exists(c.orders[SymA][i]) <=> i \in RestingIds(mb)
    /\ \A o \in Resting(mb) : c.orders[SymA][o.id].acc_fill_qty = o.acc_fill_qty

\* C18: with the persistence-backed sink succeeding, whenever a registered
\* symbol's Trader is quiescent (empty queue, no request in progress) the set
\* of order ids persisted for the symbol equals the set of ids resting in its
\* book, and each persisted acc_fill_qty equals the in-memory acc_fill_qty;
\* every order that reached a deletable state or otherwise left the book is
\* absent from persistence.
C18_PersistenceTracksBook ==
    (consumer = "RedisQueue" /\ SymA \in traders /\ Quiescent)
        => Tracks(cache, market[SymA])

\* the same while the worker runs
C18_WhileRunning ==
    (consumer = "RedisQueue" /\ SymA \in traders /\ Quiescent
       /\ worker[SymA].pc = "recv")
        => Tracks(cache, market[SymA])

\* the Trader is quiescent after a feed that shutdown did not stop: its
\* record is persisted and its order is in no book
C18_Witness ==
    /\ consumer = "RedisQueue" /\ SymA \in traders /\ Quiescent
    /\ worker[SymA].pc = "exited"
    /\ resp.err = "channel closed"
    /\ resp.req[1].action = "PLACE"

\* the worker runs and is quiescent over a resting order that was filled in
\* part, which the persistence holds with the same fill (SpecJournal)
C18_WitnessPartial ==
    /\ consumer = "RedisQueue" /\ Quiescent /\ worker[SymA].pc = "recv"
    /\ \E o \in Resting(market[SymA]) :
           /\ o.acc_fill_qty = 1
           /\ cache.orders[SymA][o.id].acc_fill_qty = 1

\* the worker runs and is quiescent after a trade has emptied the book and
\* the persistence (SpecLife)
C18_WitnessTraded ==
    /\ consumer = "RedisQueue" /\ Quiescent /\ worker[SymA].pc = "recv"
    /\ market[SymA].px > 0
    /\ cache.ids[SymA] = {}
    /\ cache.trades[SymA] > 0

---------------------------------------------------------------------------
(* C19: what the script of offer_trades does to the persistence            *)

\* the states after which an order record is deleted
Deletable == {"FULL_FILLED", "CANCELED", "PARTIAL_CANCELLED"}

\* the order updates of a batch, in the order the script applies them: of
\* each event its taker, then its maker
Updates(trades) ==
    [k \in 1..(2 * Len(trades)) |->
        IF k % 2 = 1
        THEN [oid |-> trades[(k + 1) \div 2].taker_oid,
              qty |-> trades[(k + 1) \div 2].qty,
              state |-> trades[(k + 1) \div 2].taker_state,
              ts |-> trades[(k + 1) \div 2].ts]
        ELSE [oid |-> trades[k \div 2].maker_oid,
              qty |-> trades[k \div 2].qty,
              state |-> trades[k \div 2].maker_state,
              ts |-> trades[k \div 2].ts]]

\* the updates that name an id
Naming(u, i) == {k \in 1..Len(u) : u[k].oid = i}

\* the quantity the updates of an id add up to
RECURSIVE AddedQty(_, _)
AddedQty(u, i) ==
    IF u = <<>> THEN 0
    ELSE (IF u[1].oid = i THEN u[1].qty ELSE 0) + AddedQty(Tail(u), i)

\* the last update that names an id
LastNaming(u, i) == u[CHOOSE k \in Naming(u, i) : \A j \in Naming(u, i) : j <= k]

\* what the updates u make of the record h of id i, in the index or not
C19_PostId(h, h2, indexed, indexed2, u, i) ==
    IF ~hash_exists(h)
    THEN ~hash_exists(h2) /\ (indexed2 <=> indexed)
    ELSE IF \E k \in Naming(u, i) : u[k].state \in Deletable
    THEN ~hash_exists(h2) /\ ~indexed2
    ELSE IF Naming(u, i) = {}
    THEN h2 = h /\ (indexed2 <=> indexed)
    ELSE /\ h2 = [h EXCEPT !.acc_fill_qty = @ + AddedQty(u, i),
                           !.state = LastNaming(u, i).state,
                           !.update_ts = LastNaming(u, i).ts]
         /\ (indexed2 <=> indexed)

C19_Post(c, c2, trades) ==
    /\ \A i \in Ids :
           C19_PostId(c.orders[SymA][i], c2.orders[SymA][i],
                      i \in c.ids[SymA], i \in c2.ids[SymA], Updates(trades), i)
    /\ c2.trades[SymA] = c.trades[SymA] + (IF trades = <<>> THEN 0 ELSE 1)
    /\ trades = <<>> => c2 = c
    /\ c2.orders[SymB] = c.orders[SymB] /\ c2.ids[SymB] = c.ids[SymB]

\* C19: apply_trades (offer_trades), for each event of the batch and for its
\* taker and its maker id: does nothing when the order record does not exist;
\* deletes the record and its ID-index entry when the post-trade state is
\* deletable; otherwise adds the event's qty (if > 0) to the persisted
\* acc_fill_qty and overwrites state and update_ts.  An empty batch changes
\* nothing and appends nothing to the trade stream.
C19_ApplyTrades ==
    [][HandOff => C19_Post(cache, cache', worker[SymA].trades)]_vars

\* one batch of two fills has left its taker in the persistence with both
\* added, and has deleted the two makers
C19_Witness ==
    /\ cache.trades[SymA] = 1
    /\ worker[SymA].pc = "recv"
    /\ \E i \in JournalIds :
           /\ hash_exists(cache.orders[SymA][i])
           /\ cache.orders[SymA][i].acc_fill_qty = 2
           /\ cache.orders[SymA][i].state = "PARTIAL_FILLED"
           /\ cache.ids[SymA] = {i}

\* an empty batch was handed off: an order rests and nothing was appended
C19_WitnessEmpty ==
    /\ cache.trades[SymA] = 0
    /\ worker[SymA].pc = "recv" /\ queue[SymA] = <<>>
    /\ Resting(market[SymA]) # {}
    /\ cache.ids[SymA] # {}

---------------------------------------------------------------------------
(* C11: the replay of a new start                                          *)

\* the process was started again: new_trader has fed its replay
Restarting == ~restarted /\ restarted'

\* the orders the persistence holds for the symbol
PersistedOrders(c) == {c.orders[SymA][i] : i \in c.ids[SymA]}

\* the replay of the new start is processed and nothing else was fed
ReplayDone ==
    /\ restarted /\ recovering
    /\ queue[SymA] = <<>>
    /\ worker[SymA].pc = "recv"

\* C11: after shutdown() followed by a fresh Engine start (new_trader) on the
\* same persistence state, the persisted orders of the symbol are fed to the
\* Trader in ascending creation-timestamp order, and once the replay is
\* processed the set of resting orders (ids with their remaining quantities)
\* equals the set that was resting at shutdown.
C11_ReplayConvergence ==
    [][/\ Restarting =>
              /\ Range(queue'[SymA]) = PersistedOrders(cache)
              /\ Len(queue'[SymA]) = Cardinality(cache.ids[SymA])
              /\ \A j \in 1..Len(queue'[SymA]), k \in 1..Len(queue'[SymA]) :
                     j < k => queue'[SymA][j].ts <= queue'[SymA][k].ts
       /\ ReplayDone' => RestingRemain(market'[SymA]) = snapshot']_vars

\* the replay alone: what is fed, and in which order
C11_ReplayOrder ==
    [][Restarting =>
              /\ Range(queue'[SymA]) = PersistedOrders(cache)
              /\ Len(queue'[SymA]) = Cardinality(cache.ids[SymA])
              /\ \A j \in 1..Len(queue'[SymA]), k \in 1..Len(queue'[SymA]) :
                     j < k => queue'[SymA][j].ts <= queue'[SymA][k].ts]_vars

\* the replay of a new start is processed and an order rests that did not
\* rest when shutdown returned
C11_Witness ==
    /\ ReplayDone
    /\ snapshot = {}
    /\ RestingRemain(market[SymA]) # {}


---------------------------------------------------------------------------
(* C25: the last trade price and the last match time (Spec).               *)

\* what try_match is to leave in the MarketBook: the px of the last fill of
\* its batch, the old px when the batch has no fill, and the time of the call
C25_Post(pre, post, trades, now) ==
    /\ post.px = (IF Len(FillsOf(trades)) > 0
                  THEN FillsOf(trades)[Len(FillsOf(trades))].px
                  ELSE pre.px)
    /\ post.ts = now

\* C25: after every try_match the last trade price of the symbol is the px of
\* the most recent fill trade emitted for it (the initial value if there was
\* none yet) and last_ts is the time of the call; try_cancel changes neither.
C25_LastPrice ==
    [][/\ MatchStep => C25_Post(market[SymA], market'[SymA], worker'[SymA].trades, n)
       /\ CancelStep => /\ market'[SymA].px = market[SymA].px
                        /\ market'[SymA].ts = market[SymA].ts]_vars

\* the parts of C25 that do hold: a batch that ends with a fill sets px to
\* that fill's px, a batch with no trade at all keeps it, every try_match
\* sets ts, and try_cancel changes neither
C25_LastOfBatch ==
    [][/\ MatchStep =>
             /\ market'[SymA].ts = n
             /\ worker'[SymA].trades = <<>> => market'[SymA].px = market[SymA].px
             /\ worker'[SymA].trades # <<>> =>
                   market'[SymA].px = worker'[SymA].trades[Len(worker'[SymA].trades)].px
       /\ CancelStep => /\ market'[SymA].px = market[SymA].px
                        /\ market'[SymA].ts = market[SymA].ts]_vars

\* an IOC taker was filled in part and cancelled for the rest: the batch ends
\* with the PARTIAL_CANCELLED event and the book's px is that event's px, 0,
\* not the px of the fill
C25_Witness ==
    /\ InSink /\ Req.action = "PLACE" /\ Req.tif = "IOC"
    /\ Len(Batch) = 2
    /\ Batch[1].qty > 0 /\ Batch[1].px > 0
    /\ Batch[2].taker_state = "PARTIAL_CANCELLED"
    /\ Book.px = 0


---------------------------------------------------------------------------
(* C26: what a one-sided book holds.                                       *)

\* the slots of a MarketBook: <<side, position>>
Slots(mb) ==
    {<<"BUY", i>> : i \in 1..Len(mb.buy.orders)} \cup
    {<<"SELL", i>> : i \in 1..Len(mb.sell.orders)}

\* the order in a slot
SlotOrder(mb, sl) ==
    IF sl[1] = "BUY" THEN mb.buy.orders[sl[2]] ELSE mb.sell.orders[sl[2]]

\* every order of the OrderBook is of its symbol and side, has something
\* left and is in a state of an open order
BookHolds(book) ==
    \A i \in 1..Len(book.orders) :
        /\ book.orders[i].symbol = book.symbol
        /\ book.orders[i].side = book.side
        /\ remain(book.orders[i]) > 0
        /\ book.orders[i].state \in {"INIT", "LIVE", "PARTIAL_FILLED"}

\* C26: in every reachable state each order held in a one-sided book has the
\* book's symbol and side, has remain > 0 and a state in {INIT, LIVE,
\* PARTIAL_FILLED}, and no order id is held in more than one book slot.
C26_BookInvariant ==
    \A s \in Symbols :
        /\ market[s].buy.symbol = s /\ market[s].buy.side = "BUY"
        /\ market[s].sell.symbol = s /\ market[s].sell.side = "SELL"
        /\ BookHolds(market[s].buy)
        /\ BookHolds(market[s].sell)
        /\ \A a, b \in Slots(market[s]) :
               SlotOrder(market[s], a).id = SlotOrder(market[s], b).id => a = b

\* both books hold an order, one of them filled in part, and a maker was
\* filled whole and left its book in the last match
C26_Witness ==
    /\ InSink /\ Req.action = "PLACE"
    /\ Book.buy.orders # <<>> /\ Book.sell.orders # <<>>
    /\ \E o \in Resting(Book) : o.state = "PARTIAL_FILLED" /\ remain(o) = 1
    /\ \E k \in 1..Len(Batch) :
           Batch[k].maker_state = "FULL_FILLED" /\ ~HasId(Resting(Book), Batch[k].maker_oid)


---------------------------------------------------------------------------
(* C27: a taker whose key already rests (SpecCore).                        *)

\* the key of the request the worker takes in this step rests on its side
KeyRests ==
    exist_by_key(SideBook(market[SymA], worker'[SymA].req[1]),
                 OrderKey(worker'[SymA].req[1]))

\* C27: try_match of a taker whose OrderKey is already resting on its own
\* side returns an empty batch and changes neither book: no maker is filled
\* and the resting entry is not replaced.
C27_DuplicateSuppressed ==
    [][(MatchStep /\ KeyRests) =>
           /\ worker'[SymA].trades = <<>>
           /\ market'[SymA].buy = market[SymA].buy
           /\ market'[SymA].sell = market[SymA].sell]_vars

\* a MARKET taker that carries the price of the order resting under its id
\* and side, but another quantity, met a maker it can trade with: the batch
\* is empty, the maker is untouched and the resting entry is the old one
C27_Witness ==
    /\ InSink /\ Req.action = "PLACE" /\ Req.ord_type = "MARKET"
    /\ Batch = <<>>
    /\ exist_by_key(SideBook(Book, Req), OrderKey(Req))
    /\ \E o \in TakerSide(Book, Req) :
           o.id = Req.id /\ o.price = Req.price /\ o.qty # Req.qty
    /\ \E m \in MakerSide(Book, Req) : can_trade(Req, m) /\ m.acc_fill_qty = 0

\* an IOC LIMIT taker whose key rests: no CANCELED event is emitted for it
C27_WitnessIoc ==
    /\ InSink /\ Req.action = "PLACE" /\ Req.ord_type = "LIMIT" /\ Req.tif = "IOC"
    /\ Batch = <<>>
    /\ exist_by_key(SideBook(Book, Req), OrderKey(Req))


---------------------------------------------------------------------------
(* C30: the states a fill reports, and the maker it removes.               *)

\* the state of an order of which left remains after a fill
FilledState(left) == IF left = 0 THEN "FULL_FILLED" ELSE "PARTIAL_FILLED"

\* the head of the maker book of a request
MakerHead(mb, req) == IF req.side = "BUY" THEN head(mb.sell) ELSE head(mb.buy)

C30_Post(pre, post, req, trades) ==
    LET fills == FillsOf(trades)
        P == MakerSide(pre, req)
        Q == MakerSide(post, req)
    IN  \A k \in 1..Len(fills) :
           /\ fills[k].taker_state =
                 FilledState(remain(req) - SumQty(SubSeq(fills, 1, k)))
           /\ HasId(P, fills[k].maker_oid)
           /\ LET m == ById(P, fills[k].maker_oid)
              IN  /\ fills[k].maker_state = FilledState(remain(m) - fills[k].qty)
                  /\ HasId(Q, m.id) <=> remain(m) - fills[k].qty > 0
                  /\ HasId(Q, m.id) =>
                        /\ MakerHead(post, req) = Some(ById(Q, m.id))
                        /\ remain(ById(Q, m.id)) = remain(m) - fills[k].qty
                        /\ ById(Q, m.id).state = "PARTIAL_FILLED"

\* C30: in every fill trade the taker's reported state is FULL_FILLED exactly
\* when its remaining quantity after the fill is zero and PARTIAL_FILLED
\* otherwise, likewise for the maker, and the maker is removed from the maker
\* book exactly when it is fully filled: a partially filled maker stays at
\* the head with its reduced remain.
C30_FillStates ==
    [][MatchStep => C30_Post(market[SymA], market'[SymA],
                             worker'[SymA].req[1], worker'[SymA].trades)]_vars

\* two fills: the first takes its maker whole and leaves the taker
\* PARTIAL_FILLED, the second fills the taker and leaves its maker
\* PARTIAL_FILLED at the head of its book with remain 1
C30_Witness ==
    /\ InSink /\ Req.action = "PLACE"
    /\ Len(Batch) = 2
    /\ Batch[1].maker_state = "FULL_FILLED" /\ Batch[1].taker_state = "PARTIAL_FILLED"
    /\ Batch[2].maker_state = "PARTIAL_FILLED" /\ Batch[2].taker_state = "FULL_FILLED"
    /\ ~HasId(MakerSide(Book, Req), Batch[1].maker_oid)
    /\ MakerHead(Book, Req) # None
    /\ MakerHead(Book, Req)[1].id = Batch[2].maker_oid
    /\ remain(MakerHead(Book, Req)[1]) = 1


---------------------------------------------------------------------------
(* C29: the matching path never fails.                                     *)

\* every comparison of the key with a key of the book, either way round, is
\* between keys of one side
Comparable(book, key) ==
    \A o \in Range(book.orders) :
        /\ OrderKeyCmp(key, OrderKey(o)) # "Panic"
        /\ OrderKeyCmp(OrderKey(o), key) # "Panic"

\* r is what try_match / try_cancel gave for the request: ok says that no
\* unwrap met an Err.  The lookups of a request are that of its own key in
\* the book of its side (exist_by_key, add, del_by_key) and, for a PLACE,
\* that of the key of a maker in the maker book (del of a maker filled whole)
C29_Post(pre, req, r) ==
    /\ r.ok
    /\ Comparable(SideBook(pre, req), OrderKey(req))
    /\ req.action = "PLACE" =>
          \A m \in Range(OtherBook(pre, req).orders) :
              Comparable(OtherBook(pre, req), OrderKey(m))

\* C29: the matching path never fails: OrderKeys of opposite sides are never
\* compared, and try_match and try_cancel return a batch without error or
\* panic for every admitted order (the add of the residual never meets a
\* book of the other side).
C29_NeverFails ==
    [][(MatchStep \/ CancelStep) =>
           C29_Post(market[SymA], worker'[SymA].req[1],
                    handle_request(market[SymA], worker'[SymA].req[1], n))]_vars

\* a SELL taker was matched against a book that holds orders on both sides,
\* took a maker whole and rests with what was left of it
C29_Witness ==
    /\ InSink /\ Req.action = "PLACE" /\ Req.side = "SELL"
    /\ Len(FillsOf(Batch)) = 1
    /\ Batch[1].maker_state = "FULL_FILLED"
    /\ HasId(Range(Book.sell.orders), Req.id)
    /\ Len(Book.sell.orders) = 2

\* a CANCEL looked its key up in a book of two orders and removed one
C29_WitnessCancel ==
    /\ InSink /\ Req.action = "CANCEL"
    /\ Len(Batch) = 1
    /\ Len(SideBook(Book, Req).orders) = 1


---------------------------------------------------------------------------
(* C28: one batch per request, in match order, in request order            *)
(* (SpecBatch).                                                            *)

\* the step in which the sink takes the batch of the worker
SinkStep == worker[SymA].pc = "sink" /\ worker'[SymA].pc = "recv"

\* the batch of a PLACE: its fills name the makers of the maker book from
\* the head on, each fill for the taker, and after the fills comes at most
\* one event, the taker's cancel or partial cancel; pre is the book before
C28_Batch(pre, req, trades) ==
    LET fills == FillsOf(trades)
        events == EventsOf(trades)
    IN  /\ trades = fills \o events
        /\ Len(events) <= 1
        /\ Len(fills) <= Len(OtherBook(pre, req).orders)
        /\ \A k \in 1..Len(fills) :
               /\ fills[k].maker_oid = OtherBook(pre, req).orders[k].id
               /\ fills[k].taker_oid = req.id
        /\ \A k \in 1..Len(events) :
               /\ events[k].taker_oid = req.id
               /\ events[k].taker_state \in {"CANCELED", "PARTIAL_CANCELLED"}

\* C28: for each dequeued request the Trader hands the sink exactly one
\* batch holding all events of that request: the fills in the order the
\* makers were matched, the taker's terminating cancel or partial-cancel
\* event (if any) last; batches reach the sink in request order.  The
\* worker takes the head of its queue, its batch is what try_match /
\* try_cancel returned for it, and until the sink has taken exactly that
\* batch the worker takes no other request.
C28_OneBatchPerRequest ==
    [][/\ (worker[SymA].pc = "recv" /\ worker'[SymA] # worker[SymA]) =>
             /\ queue[SymA] # <<>>
             /\ worker'[SymA].pc = "sink"
             /\ worker'[SymA].req = Some(Head(queue[SymA]))
             /\ queue'[SymA] = Tail(queue[SymA])
             /\ worker'[SymA].trades =
                   handle_request(market[SymA], Head(queue[SymA]), n).trades
       /\ MatchStep => C28_Batch(market[SymA], worker'[SymA].req[1],
                                 worker'[SymA].trades)
       /\ worker[SymA].pc = "sink" =>
             \/ worker'[SymA] = worker[SymA] /\ market' = market
             \/ /\ SinkStep
                /\ worker'[SymA] = IdleWorker
                /\ market' = market /\ queue' = queue
                /\ cache' = (IF consumer = "RedisQueue"
                             THEN offer_trades(cache, worker[SymA].trades)
                             ELSE cache)]_vars

\* the batch of an IOC taker of three units waits for the sink, a fill
\* followed by its PARTIAL_CANCELLED, while the next request waits in the
\* queue
C28_Witness ==
    /\ InSink /\ Req.action = "PLACE" /\ Req.tif = "IOC"
    /\ Len(Batch) = 2
    /\ Batch[1].qty = 1
    /\ Batch[2].taker_state = "PARTIAL_CANCELLED"
    /\ queue[SymA] # <<>>

\* two fills, in the order of the makers' ids, and the closing event
C28_WitnessTwoFills ==
    /\ InSink /\ Req.action = "PLACE"
    /\ Len(Batch) = 3
    /\ Batch[1].maker_oid < Batch[2].maker_oid
    /\ Batch[2].qty = 1
    /\ Batch[3].taker_state = "PARTIAL_CANCELLED"


---------------------------------------------------------------------------
(* C23: the bounded queue of a Trader (SpecPair).                          *)

\* a feed call is at Trader::feed for s
Sending(s) == feeding # None /\ feeding[1].symbol = s

\* the requests for SymA that were accepted on its queue so far: all that
\* were fed but the one that is still at Trader::feed
AcceptedA == IF Sending(SymA) THEN n - 1 ELSE n

\* the queue of SymA holds the requests accepted last, each once, in the
\* order of their feeds
InFeedOrder ==
    \A i \in 1..Len(queue[SymA]) :
        queue[SymA][i].id = AcceptedA - Len(queue[SymA]) + i

\* C23: Trader.feed returns as soon as the order is accepted on the queue,
\* without waiting for the match; the queue never holds more than its
\* capacity (16) and a producer that finds it full waits until a slot frees,
\* with no request dropped, duplicated or reordered.
C23_BoundedQueue ==
    [][/\ \A s \in Symbols : Len(queue'[s]) <= QueueCap
       \* the call returns when its order is at the end of the queue: the
       \* worker has not touched it
       /\ (feeding # None /\ feeding' = None) =>
             /\ resp' = [req |-> feeding, err |-> "ok"]
             /\ queue'[feeding[1].symbol] = Append(queue[feeding[1].symbol], feeding[1])
             /\ Len(queue[feeding[1].symbol]) < QueueCap
             /\ market' = market /\ worker' = worker
       \* a full queue keeps the producer waiting, with its order
       /\ (feeding # None /\ Len(queue[feeding[1].symbol]) = QueueCap) =>
             feeding' = feeding
       \* a queue changes at its ends only: the producer's order at the tail,
       \* the worker's next request from the head
       /\ \A s \in Symbols :
             \/ queue'[s] = queue[s]
             \/ Sending(s) /\ queue'[s] = Append(queue[s], feeding[1])
             \/ /\ queue[s] # <<>> /\ queue'[s] = Tail(queue[s])
                /\ worker[s].pc = "recv"
                /\ worker'[s].req = Some(Head(queue[s]))
       /\ InFeedOrder']_vars

\* the queue of SymA is full, its worker is in the sink with the first
\* request and the producer of the eighteenth waits in Trader::feed
C23_Witness ==
    /\ Len(queue[SymA]) = QueueCap
    /\ worker[SymA].pc = "sink"
    /\ Sending(SymA)
    /\ feeding[1].id = QueueCap + 2

\* the producer that waited has its order at the end of the queue, which is
\* full again, and its call has returned
C23_WitnessFreed ==
    /\ Len(queue[SymA]) = QueueCap
    /\ feeding = None
    /\ queue[SymA][QueueCap].id = QueueCap + 2
    /\ resp.err = "ok" /\ resp.req[1].id = QueueCap + 2


---------------------------------------------------------------------------
(* C24: the Traders of different symbols (SpecPair).                       *)

\* the engine's mutex, which handler_match holds for the whole of
\* MatchEngine::feed, is held by a call that waits for room in the queue
\* of s
HeldFor(s) == Sending(s) /\ Len(queue[s]) = QueueCap

\* a feed for s is admitted: the mutex is free, or the call that holds it
\* does not wait for the Trader of another symbol
Admits(s) == \A t \in Symbols \ {s} : ~HeldFor(t)

\* C24: Traders of different symbols are independent: while SymA's queue is
\* full or its worker is busy in the sink, a feed for the registered SymB
\* is still admitted and enqueued.
C24_Independent ==
    (SymB \in traders /\ (Len(queue[SymA]) = QueueCap \/ worker[SymA].pc = "sink"))
        => Admits(SymB)

\* the part of C24 that holds: a step of the worker of one symbol leaves
\* the book, the queue and the worker of every other symbol as they were,
\* and what is done for SymA never changes the book of SymB
C24_Frames ==
    [][/\ \A s \in Symbols :
             worker'[s] # worker[s] =>
                 \A t \in Symbols \ {s} :
                     /\ market'[t] = market[t]
                     /\ queue'[t] = queue[t]
                     /\ worker'[t] = worker[t]
       /\ market'[SymB] # market[SymB] =>
             /\ worker[SymB].pc = "recv" /\ worker'[SymB].pc = "sink"
             /\ worker'[SymB].req[1].symbol = SymB]_vars

\* the queue of SymA is full and its worker is in the sink; the feed that
\* waits for room holds the mutex while the Trader of SymB is idle over a
\* resting order, its queue empty, and an order for SymB is yet to be fed
C24_Witness ==
    /\ HeldFor(SymA)
    /\ worker[SymA].pc = "sink"
    /\ worker[SymB].pc = "recv" /\ queue[SymB] = <<>>
    /\ Len(market[SymB].buy.orders) = 1
    /\ <<SymB, 2>> \notin fed


---------------------------------------------------------------------------
(* C21: new_trader for a symbol that has a Trader (SpecStart).             *)

\* init_engine's call of new_trader has failed: the process panics while it
\* starts
NewTraderFails == stopper = "starting" /\ stopper' = "panicked"

\* the Trader of s goes on within one process: s is registered before and
\* after the step
Goes(s) == s \in traders /\ s \in traders'

\* C21: new_trader(symbol) fails when a Trader for that symbol is already
\* registered, and then leaves the registry unchanged, starts no second
\* worker and performs no replay; at most one Trader and one worker ever
\* exist per symbol: the Trader of a registered symbol is never made anew
\* (its book changes only by a request its worker takes, its queue only by
\* one request added or taken, its receiver of ctx is never a fresh one),
\* and every worker is that of a registered symbol.
C21_OneTraderPerSymbol ==
    [][/\ NewTraderFails =>
             /\ traders # {}
             /\ UNCHANGED <<traders, handlers, ctx, market, queue, worker, cache>>
       /\ \A s \in Symbols :
             Goes(s) =>
                 /\ market'[s] # market[s] =>
                        /\ worker[s].pc = "recv" /\ worker'[s].pc = "sink"
                        /\ queue[s] # <<>> /\ queue'[s] = Tail(queue[s])
                 /\ \/ queue'[s] = queue[s]
                    \/ queue[s] # <<>> /\ queue'[s] = Tail(queue[s])
                    \/ feeding # None /\ queue'[s] = Append(queue[s], feeding[1])
                 /\ worker'[s] # worker[s] => worker[s].pc # worker'[s].pc
                 /\ ctx'[s] # ctx[s] => <<ctx[s], ctx'[s]>> \in {<<"open", "sent">>,
                                                               <<"sent", "dropped">>}
       /\ (traders' # traders /\ stopper' = "starting" /\ stopper = "starting") =>
             \E s \in Symbols \ traders :
                 /\ traders' = traders \cup {s}
                 /\ handlers' = handlers \cup {s}
                 /\ ctx[s] = "none" /\ ctx'[s] = "open"
       /\ handlers' \subseteq traders']_vars

\* the second new_trader for SymA has failed in the process that was started
\* over a persistence holding an order of SymA: the Trader registered first
\* is there, its worker has taken the replayed order into the book, and the
\* queue holds no second replay
C21_Witness ==
    /\ stopper = "panicked" /\ restarted
    /\ traders = {SymA} /\ handlers = {SymA} /\ ctx[SymA] = "open"
    /\ cache.ids[SymA] = {1}
    /\ Len(market[SymA].buy.orders) = 1
    /\ queue[SymA] = <<>>

---------------------------------------------------------------------------
(* C22: a PLACE for a symbol without a Trader (SpecStart).                 *)

\* MatchEngine::feed returns for a symbol that has no Trader
FeedNoTrader == feeding # None /\ feeding' = None /\ feeding[1].symbol \notin traders

\* new_trader registers s
Registers(s) == s \notin traders /\ s \in traders'

\* the ids of the orders a queue holds
QueuedIds(q) == {q[j].id : j \in 1..Len(q)}

\* what the feed for a symbol without a Trader does: it returns success,
\* enqueues nowhere and leaves the order admitted
C22_Feed ==
    FeedNoTrader =>
        /\ resp' = [req |-> feeding, err |-> "ok"]
        /\ queue' = queue /\ market' = market /\ worker' = worker
        /\ Persisted(cache', feeding[1])
        /\ cache' = cache

\* C22: Engine.feed of a PLACE for a symbol with no registered Trader returns
\* success, enqueues the order nowhere, and leaves it admitted in
\* persistence, so that it is fed to the Trader by the next startup replay
\* of that symbol (SymB has no Trader in the first process: what the
\* persistence holds for it at the next start was fed so).
C22_UnknownSymbol ==
    [][/\ C22_Feed
       /\ Registers(SymB) => cache.ids[SymB] \subseteq QueuedIds(queue'[SymB])]_vars

\* the part of C22 that holds: the feed, and the replay of the orders whose
\* ts is not later than the start
C22_ReplayUpToNow ==
    [][/\ C22_Feed
       /\ Registers(SymB) =>
             /\ {i \in cache.ids[SymB] : cache.scores[SymB][i] <= now_ts}
                    \subseteq QueuedIds(queue'[SymB])
             /\ \A i \in cache.ids[SymB] \ QueuedIds(queue'[SymB]) :
                    cache.scores[SymB][i] = LateTs]_vars

\* the order fed for SymB while it had no Trader, with a ts of the client
\* later than the next start, is in the persistence; the next process has
\* registered SymB and its Trader got nothing: the queue and the book are
\* empty and the worker waits
C22_Witness ==
    /\ restarted /\ SymB \in traders /\ stopper = "idle"
    /\ 1 \in cache.ids[SymB] /\ cache.scores[SymB][1] = LateTs
    /\ queue[SymB] = <<>> /\ worker[SymB] = IdleWorker
    /\ market[SymB].buy.orders = <<>>

\* the order fed for SymB while it had no Trader, stamped by the ingress,
\* rests in the book of the Trader the next process registered
C22_WitnessReplayed ==
    /\ restarted /\ SymB \in traders
    /\ 1 \in cache.ids[SymB] /\ cache.scores[SymB][1] < LateTs
    /\ Len(market[SymB].buy.orders) = 1


---------------------------------------------------------------------------
(* C31: the residual of a GTC MARKET taker (SpecMarket).                   *)

\* what try_match did for the GTC MARKET taker req: nothing was added to
\* the book of its side, every order that rests rested before, the batch
\* holds fills of the taker and no cancel
\* or partial-cancel event, and a taker left with unfilled quantity has
\* exhausted the maker book
C31_Post(pre, post, req, trades) ==
    /\ SideBook(post, req) = SideBook(pre, req)
    /\ \A m \in Resting(post) : \E o \in Resting(pre) : OrderKey(o) = OrderKey(m)
    /\ EventsOf(trades) = <<>>
    /\ \A j \in 1..Len(trades) :
           /\ trades[j].qty > 0
           /\ trades[j].taker_oid = req.id
           /\ trades[j].maker_oid # 0
           /\ trades[j].taker_state \in {"PARTIAL_FILLED", "FULL_FILLED"}
    /\ SumQty(trades) <= req.qty
    /\ SumQty(trades) < req.qty => OtherBook(post, req).orders = <<>>

\* C31: a GTC MARKET taker left with unfilled quantity (maker book
\* exhausted) does not rest on any book and no cancel or partial-cancel
\* event is emitted for it; the batch holds only its fills.
C31_GtcMarketResidual ==
    [][(MatchStep /\ worker'[SymA].req[1].ord_type = "MARKET"
                  /\ worker'[SymA].req[1].tif = "GTC") =>
          C31_Post(market[SymA], market'[SymA], worker'[SymA].req[1],
                   worker'[SymA].trades)]_vars

\* a GTC MARKET taker of two units took the one unit that rested: the batch
\* is that fill alone, one unit of the taker is left and both books are empty
C31_Witness ==
    /\ InSink /\ Req.action = "PLACE" /\ Req.ord_type = "MARKET" /\ Req.tif = "GTC"
    /\ Req.qty = 2
    /\ Len(Batch) = 1 /\ Batch[1].qty = 1 /\ Batch[1].taker_state = "PARTIAL_FILLED"
    /\ Book.buy.orders = <<>> /\ Book.sell.orders = <<>>

\* a GTC MARKET taker that met an empty maker book: an empty batch, nothing
\* rests
C31_WitnessNoMaker ==
    /\ InSink /\ Req.action = "PLACE" /\ Req.ord_type = "MARKET" /\ Req.tif = "GTC"
    /\ Batch = <<>>
    /\ Book.buy.orders = <<>> /\ Book.sell.orders = <<>>
    /\ n = 2


---------------------------------------------------------------------------
(* C36: an IOC taker goes on after a partial fill (Spec).                  *)

\* where the loop of match_book ended for the taker req: the taker is
\* filled, or the maker book is empty, or its head does not cross
C36_LoopEnd(post, req, trades) ==
    \/ SumQty(FillsOf(trades)) = remain(req)
    \/ OtherBook(post, req).orders = <<>>
    \/ ~can_trade(req, head(OtherBook(post, req))[1])

\* C36: an IOC taker keeps matching across successive head makers until it
\* is fully filled or the head maker no longer crosses (or the maker book is
\* empty): it is not stopped after its first partial fill, the in-loop IOC
\* check never ending the loop (no fill leaves the taker PARTIAL_CANCELLED).
C36_IocKeepsMatching ==
    [][(MatchStep /\ worker'[SymA].req[1].tif = "IOC") =>
          /\ C36_LoopEnd(market'[SymA], worker'[SymA].req[1], worker'[SymA].trades)
          /\ \A j \in 1..Len(worker'[SymA].trades) :
                 worker'[SymA].trades[j].qty > 0 =>
                     worker'[SymA].trades[j].taker_state # "PARTIAL_CANCELLED"]_vars

\* an IOC taker of two units was filled by two makers of one unit each: the
\* first fill left it PARTIAL_FILLED and the loop went on to the second
C36_Witness ==
    /\ InSink /\ Req.action = "PLACE" /\ Req.tif = "IOC" /\ Req.qty = 2
    /\ Len(Batch) = 2
    /\ Batch[1].qty = 1 /\ Batch[1].taker_state = "PARTIAL_FILLED"
    /\ Batch[2].qty = 1 /\ Batch[2].taker_state = "FULL_FILLED"
    /\ Batch[1].maker_oid # Batch[2].maker_oid


---------------------------------------------------------------------------
(* C34: a cancel is found by its whole key (Spec).                         *)

\* an order rests under the id and on the side the cancel names, at another
\* price than the cancel carries
RestsAtOtherPrice(mb, cancel) ==
    \E o \in TakerSide(mb, cancel) : o.id = cancel.id /\ o.price # cancel.price

\* C34: try_cancel finds the resting order by the key (price, id, side) built
\* from the cancel request: a cancel carrying the resting order's id and
\* side but a different price removes nothing, emits no event and leaves
\* the order resting.
C34_CancelByKey ==
    [][(CancelStep /\ RestsAtOtherPrice(market[SymA], worker'[SymA].req[1])) =>
          /\ worker'[SymA].trades = <<>>
          /\ market'[SymA].buy = market[SymA].buy
          /\ market'[SymA].sell = market[SymA].sell
          /\ RestsAtOtherPrice(market'[SymA], worker'[SymA].req[1])]_vars

\* a cancel for the id and side of the one resting order, at the other
\* price: the batch is empty and the order rests
C34_Witness ==
    /\ InSink /\ Req.action = "CANCEL"
    /\ Batch = <<>>
    /\ RestsAtOtherPrice(Book, Req)
    /\ Cardinality(Resting(Book)) = 1


---------------------------------------------------------------------------
(* C33: the book is never crossed (Spec).                                  *)

\* both sides hold an order and the best BUY does not trade with the best
\* SELL: its price is strictly below
Uncrossed(mb) ==
    (mb.buy.orders # <<>> /\ mb.sell.orders # <<>>) =>
        head(mb.buy)[1].price < head(mb.sell)[1].price

\* the order of a set that a replay feeds first: the least ts, then the
\* least id
FirstFed(orders) ==
    CHOOSE o \in orders :
        \A x \in orders : o.ts < x.ts \/ (o.ts = x.ts /\ o.id <= x.id)

\* try_match of each order of a set, one after the other as a replay feeds
\* them, from the book mb: [trades, market]
RECURSIVE Replay(_, _, _)
ReplayStep(r, trades, others) == Replay(r.market, trades \o r.trades, others)
ReplayNext(mb, trades, orders, o) ==
    ReplayStep(try_match(mb, o, 0), trades, orders \ {o})
Replay(mb, trades, orders) ==
    IF orders = {} THEN [trades |-> trades, market |-> mb]
    ELSE ReplayNext(mb, trades, orders, FirstFed(orders))

\* what the replay of the resting orders of mb into a new book gives
Replayed(r, mb) == r.trades = <<>> /\ Resting(r.market) = Resting(mb)

\* C33: the book is never crossed: after every processed request (place,
\* cancel or replayed order), if both sides are non-empty the best resting
\* BUY price is strictly below the best resting SELL price, so replaying
\* orders that were all resting together produces no trade (and puts every
\* one of them back in the book).
C33_NeverCrossed ==
    /\ Uncrossed(Book)
    /\ InSink => Replayed(Replay(NewMarketBook(SymA, 0), <<>>, Resting(Book)), Book)

\* a BUY rests below a SELL after a taker was matched: a trade was made and
\* both sides hold an order
C33_Witness ==
    /\ Book.buy.orders # <<>> /\ Book.sell.orders # <<>>
    /\ head(Book.buy)[1].price < head(Book.sell)[1].price
    /\ Book.px > 0

\* a partially filled order that recovery fed rests opposite another order
C33_WitnessReplayed ==
    /\ Book.buy.orders # <<>> /\ Book.sell.orders # <<>>
    /\ \E o \in Resting(Book) : o.state = "PARTIAL_FILLED"


---------------------------------------------------------------------------
(* C32: a failure of the sink (SpecSink).                                  *)

\* the worker leaves the sink, and the worker takes a request
LeavesSink == worker[SymA].pc = "sink" /\ worker'[SymA] # worker[SymA]
TakesRequest == worker[SymA].pc = "recv" /\ worker'[SymA].pc = "sink"

\* C32: a failure of the sink while consuming the batch of one request is
\* not retried and does not stop the Trader worker: the book changes of that
\* request are kept in memory and the next queued request is processed
\* normally (the worker is back at its queue with the batch dropped, the
\* request is not put back, and the request it takes next is the head of
\* the queue, matched against the book as it was left).
C32_SinkFailure ==
    [][/\ LeavesSink =>
             /\ worker'[SymA] = IdleWorker
             /\ market' = market
             /\ queue' = queue
       /\ TakesRequest =>
             /\ queue[SymA] # <<>>
             /\ queue'[SymA] = Tail(queue[SymA])
             /\ worker'[SymA].req = Some(Head(queue[SymA]))
             /\ market'[SymA] =
                    handle_request(market[SymA], Head(queue[SymA]), now_ts).market
             /\ worker'[SymA].trades =
                    handle_request(market[SymA], Head(queue[SymA]), now_ts).trades
       /\ worker'[SymA].pc # "exited"]_vars

\* the sink failed on the batch of the IOC order 1, whose record is as it
\* was admitted and whose batch is not in the stream; the worker has gone on
\* to the request of order 2, a PLACE that rests
C32_Witness ==
    /\ InSink /\ Req.id = 2 /\ Req.action = "PLACE"
    /\ 1 \in cache.ids[SymA]
    /\ cache.orders[SymA][1].tif = "IOC" /\ cache.orders[SymA][1].state = "LIVE"
    /\ cache.trades[SymA] = 0
    /\ queue[SymA] = <<>>
    /\ HasId(Resting(Book), 2)

\* the sink failed on the batch of a fill: the maker is gone from the book,
\* its record says LIVE, and the worker waits on its queue
C32_WitnessFill ==
    /\ worker[SymA] = IdleWorker /\ queue[SymA] = <<>>
    /\ Book.px > 0 /\ Resting(Book) = {}
    /\ cache.trades[SymA] = 0
    /\ \E i \in cache.ids[SymA] : cache.orders[SymA][i].state = "LIVE"


---------------------------------------------------------------------------
(* C35: the index entry and the record of an order go together (SpecStore). *)

\* the index entry of (s, i) is there, and so is its record
Indexed(c, s, i) == i \in c.ids[s]
Recorded(c, s, i) == hash_exists(c.orders[s][i])

\* what the replay scan of s sees at the time now: every index entry has a
\* record that reads as an order, and the scan returns one order for each
ScanWhole(c, s, now) ==
    /\ ~recover(c, s, now).panic
    /\ Len(recover(c, s, now).orders) = Cardinality(c.ids[s])
    /\ \A j \in 1..Len(recover(c, s, now).orders) :
           /\ Range(OrderFields) \subseteq DOMAIN recover(c, s, now).orders[j]
           /\ Indexed(c, s, recover(c, s, now).orders[j].id)

\* C35: in every reachable persisted state the ID-index entry of a (symbol,
\* id) exists exactly when its order record exists: add_if_absent, delete
\* and apply_trades each create or remove the two together, so no torn
\* order (index without record or record without index) is ever visible to
\* the replay scan.
C35_NoTornOrder ==
    /\ \A s \in Symbols : \A i \in Ids : Indexed(cache, s, i) <=> Recorded(cache, s, i)
    /\ ScanWhole(cache, SymA, 1)

\* order 1 was admitted and a fill left it PARTIAL_FILLED; order 2 was
\* admitted and the same fill, which filled it whole, removed its record
\* and its index entry
C35_Witness ==
    /\ Indexed(cache, SymA, 1) /\ Recorded(cache, SymA, 1)
    /\ cache.orders[SymA][1].state = "PARTIAL_FILLED"
    /\ ~Indexed(cache, SymA, 2) /\ ~Recorded(cache, SymA, 2)
    /\ cache.trades[SymA] = 1
    /\ n = 3

\* del has removed order 1, index entry and record, and order 2 is there
C35_WitnessDel ==
    /\ resp.err = "deleted" /\ resp.req[1].id = 1
    /\ ~Indexed(cache, SymA, 1) /\ ~Recorded(cache, SymA, 1)
    /\ Indexed(cache, SymA, 2) /\ Recorded(cache, SymA, 2)
    /\ n = 3

=========================================================================
